---- MODULE Spec2Model ----
(***************************************************************************)
(* A state-machine model of the todo application's mutation handlers       *)
(* (src/src/app/App.tsx), its persistence layer (supabaseTodos, kept in    *)
(* src/unnamed/part_002) and the group-name mapping (src/src/app/types.ts).*)
(*                                                                         *)
(* In-memory state is the React state of App: the todos array and the      *)
(* group order.  The repository is the todos table and the user's group    *)
(* order row.  A handler runs synchronously up to its first await; each    *)
(* awaited persistence call is then settled by one step (the store applies *)
(* it and the continuation runs, or it rejects and the catch block runs).  *)
(* TodoList (src/unnamed/part_005) renders the in-memory state.  The load  *)
(* effect of App fills it for the signed-in user.                          *)
(***************************************************************************)
EXTENDS Integers, Sequences, FiniteSets, TLC

VARIABLES
    todos,      \* App.tsx:30   the in-memory todos array (React state)
    repo,       \* the todos table: a sequence of rows, row i has id i
    calls,      \* handler activations suspended at an await
    today,      \* the current UTC date, new Date().toISOString().split("T")[0]
    tz,         \* the host's time zone (used by Date.getDate / Date.setDate)
    ops,        \* history: how many handler calls have been made
    last,       \* history: the most recent handler step and the activation it belongs to
    groupOrder, \* App.tsx:31   the in-memory group order (React state)
    groupRepo,  \* the backlog list of the user's user_group_orders row
    shown,      \* what TodoList last rendered from todos and groupOrder
    user,       \* App.tsx:33   the signed-in user's id, or NoUser (React state)
    loadingTodos, \* App.tsx:32 the loading flag (React state)
    loads       \* activations of load() suspended at an await (App.tsx:73-92)

vars == <<todos, repo, calls, today, tz, ops, last, groupOrder, groupRepo, shown,
          user, loadingTodos, loads>>

(* The user: a user id, or NoUser for null (signed out). *)
Users == {"u1", "u2"}
NoUser == "none"

(* The state the load effect leaves after it ran to its end for user "u1"
   (App.tsx:63-96): the flag is cleared and no load is in flight. *)
loaded ==
    /\ user = "u1"
    /\ loadingTodos = FALSE
    /\ loads = <<>>

----------------------------------------------------------------------------
(* Bounds of the model.                                                    *)

\* the most rows the repository may hold (recurrence spawns are capped by it)
MaxTodos == 5

\* the most handleMove calls of one behaviour
MaxMoves == 2

\* the most handleToggle calls of one behaviour of SpecToggle
MaxToggles == 3

\* the most handler calls of one behaviour of Spec
MaxOps == 2

\* the most handleMoveGroup / handleRenameGroup calls of a behaviour
MaxGroupOps == 1

\* the most handleMove calls of a behaviour of SpecView
MaxViewMoves == 1

\* the most handler calls of a behaviour of SpecIgnored
MaxIgnoredOps == 1

----------------------------------------------------------------------------
(* Values.                                                                 *)

NoId == 0                \* null recurringParentId / "not found"
NoDate == <<>>           \* "" dueDate, undefined completedAt, null deletedAt

(* types.ts:39 *)
UNGROUPED == "Ungrouped"

(* displayGroup without the fallback: the stored name is shown as it is. *)
displayGroupRaw(group) == group

(* types.ts:42-44.  `group || UNGROUPED`: the only falsy string is "". *)
displayGroup(group) == IF group = "" THEN UNGROUPED ELSE group

(* types.ts:47-49 *)
storedGroup(displayName) == IF displayName = UNGROUPED THEN "" ELSE displayName

(* types.ts:7-22: the Todo record. *)
Todo(id, summary, category, group, order, repeatDays, completed, completedAt, deletedAt, parent) ==
    [ id |-> id, summary |-> summary, description |-> "", completed |-> completed,
      category |-> category, dueDate |-> NoDate, starred |-> FALSE,
      repeatDays |-> repeatDays, group |-> group, priority |-> "",
      order |-> order, completedAt |-> completedAt, deletedAt |-> deletedAt,
      recurringParentId |-> parent ]

----------------------------------------------------------------------------
(* Array helpers, as the JavaScript built-ins the handlers use.            *)

Range(s) == { s[i] : i \in DOMAIN s }

Ids(ts) == { ts[i].id : i \in DOMAIN ts }

(* Array.prototype.findIndex by id: 0-based index of the first match, -1 if none. *)
findIndex(ts, id) ==
    IF \E i \in DOMAIN ts : ts[i].id = id
    THEN (CHOOSE i \in DOMAIN ts : ts[i].id = id /\ \A j \in 1..(i-1) : ts[j].id # id) - 1
    ELSE -1

(* todos.find((t) => t.id === id); only used where the id is present. *)
find(ts, id) == ts[findIndex(ts, id) + 1]

(* Array.prototype.splice(idx, 1): remove the element at 0-based idx. *)
spliceOut(s, idx) == SubSeq(s, 1, idx) \o SubSeq(s, idx + 2, Len(s))

(* Array.prototype.splice(idx, 0, x): insert x at 0-based idx (clamped to the length). *)
spliceIn(s, idx, x) ==
    LET k == IF idx > Len(s) THEN Len(s) ELSE idx
    IN  SubSeq(s, 1, k) \o <<x>> \o SubSeq(s, k + 1, Len(s))

(* Insert x behind every element whose order is <= x.order. *)
RECURSIVE insertByOrder(_, _)
insertByOrder(sorted, x) ==
    IF sorted = <<>> THEN <<x>>
    ELSE IF sorted[Len(sorted)].order <= x.order THEN Append(sorted, x)
    ELSE Append(insertByOrder(SubSeq(sorted, 1, Len(sorted) - 1), x), sorted[Len(sorted)])

(* .sort((a, b) => a.order - b.order): Array.prototype.sort is stable. *)
RECURSIVE sortByOrder(_)
sortByOrder(s) ==
    IF s = <<>> THEN <<>>
    ELSE insertByOrder(sortByOrder(SubSeq(s, 1, Len(s) - 1)), s[Len(s)])

----------------------------------------------------------------------------
(* The persistence layer, part_002 (supabaseTodos).                        *)

NullStr == "NULL"        \* SQL NULL in a text column
NullDate == <<"NULL">>   \* SQL NULL in a date / timestamp column
NullId == -1             \* SQL NULL in the recurring_parent_id column

(* part_002:8-21 *)
FIELD_TO_COLUMN ==
    [ summary |-> "summary", description |-> "description", completed |-> "completed",
      category |-> "category", dueDate |-> "due_date", starred |-> "starred",
      repeatDays |-> "repeat_days", group |-> "group_name", priority |-> "priority",
      order |-> "order_num", completedAt |-> "completed_at",
      recurringParentId |-> "recurring_parent_id" ]

(* part_002:24-29 *)
NULLABLE_FIELDS == {"dueDate", "group", "completedAt", "recurringParentId"}

(* part_002:60, `value || null` on a nullable field: a falsy value is stored as NULL. *)
orNull(field, value) ==
    CASE field = "group" -> IF value = "" THEN NullStr ELSE value
      [] field \in {"dueDate", "completedAt"} -> IF value = NoDate THEN NullDate ELSE value
      [] field = "recurringParentId" -> IF value = NoId THEN NullId ELSE value

(* part_002:55-64: the column payload of a partial Todo; only the fields
   present in `updates` that FIELD_TO_COLUMN knows. *)
toColumnPayload(updates) ==
    LET fields == DOMAIN updates \cap DOMAIN FIELD_TO_COLUMN
    IN  [ column \in { FIELD_TO_COLUMN[f] : f \in fields } |->
            LET field == CHOOSE f \in fields : FIELD_TO_COLUMN[f] = column
            IN  IF field \in NULLABLE_FIELDS THEN orNull(field, updates[field])
                ELSE updates[field] ]

(* part_002:32-49 *)
mapRow(row) ==
    [ id |-> row.id,
      summary |-> row.summary,
      description |-> row.description,
      completed |-> row.completed,
      category |-> row.category,
      dueDate |-> IF row.due_date = NullDate THEN NoDate ELSE row.due_date,
      starred |-> row.starred,
      repeatDays |-> row.repeat_days,
      group |-> IF row.group_name = NullStr THEN "" ELSE row.group_name,
      priority |-> row.priority,
      order |-> row.order_num,
      completedAt |-> IF row.completed_at = NullDate THEN NoDate ELSE row.completed_at,
      deletedAt |-> IF row.deleted_at = NullDate THEN NoDate ELSE row.deleted_at,
      recurringParentId |-> IF row.recurring_parent_id = NullId THEN NoId
                            ELSE row.recurring_parent_id ]

(* A record with the entries of `changes` written over those of `base`
   ({ ...base, ...changes } in memory, UPDATE ... SET in the store). *)
merge(base, changes) ==
    [ k \in DOMAIN base \cup DOMAIN changes |->
        IF k \in DOMAIN changes THEN changes[k] ELSE base[k] ]

(* part_002:82-91: the row addTodo inserts; the store assigns the id, and a
   column the payload does not name (completed_at) is NULL. *)
insertedRow(id, todo) ==
    merge([id |-> id, completed_at |-> NullDate, deleted_at |-> NullDate],
          toColumnPayload(todo))

(* part_002:96-108: the table after updateTodo(todoId, updates) succeeded;
   an empty payload or an unknown id changes nothing. *)
updateTodo(rows, todoId, updates) ==
    [ i \in DOMAIN rows |->
        IF rows[i].id = todoId THEN merge(rows[i], toColumnPayload(updates)) ELSE rows[i] ]

(* softDeleteTodo without its .eq("id", todoId) filter: every row is marked. *)
softDeleteTodoUnfiltered(rows, todoId, now) ==
    [ i \in DOMAIN rows |-> [rows[i] EXCEPT !.deleted_at = now] ]

(* part_002:111-117: the table after softDeleteTodo(todoId) succeeded. *)
softDeleteTodo(rows, todoId, now) ==
    [ i \in DOMAIN rows |->
        IF rows[i].id = todoId THEN [rows[i] EXCEPT !.deleted_at = now] ELSE rows[i] ]

(* The arrangements of a set of rows that are ascending in order_num. *)
RECURSIVE ascending(_)
ascending(rs) ==
    IF rs = {} THEN { <<>> }
    ELSE UNION { { <<r>> \o rest : rest \in ascending(rs \ {r}) } :
                 r \in { x \in rs : \A y \in rs : x.order_num <= y.order_num } }

(* part_002:68-76: what fetchTodos may return: the rows mapped, ascending in
   order_num; the store does not fix the order of rows with equal order_num. *)
fetchTodos(rows) ==
    { [ i \in DOMAIN arr |-> mapRow(arr[i]) ] : arr \in ascending(Range(rows)) }

(* The row a todo was mapped from (the table as the load effect found it). *)
rowOf(t) ==
    merge(insertedRow(t.id, t),
          [deleted_at |-> IF t.deletedAt = NoDate THEN NullDate ELSE t.deletedAt])

----------------------------------------------------------------------------
(* handleMove, App.tsx:269-354, and batchUpdateOrder, part_002:140-155.    *)

(* App.tsx:277-296: the same-group branch; the array passed to setTodos
   (the todos unchanged on the early return of line 285). *)
moveSameGroup(ts, dragId, hoverId, dragGroup) ==
    LET dragTodo == find(ts, dragId)
        groupTodos == sortByOrder(SelectSeq(ts,
            LAMBDA t : t.category = dragTodo.category /\ displayGroup(t.group) = dragGroup))
        dragIdx == findIndex(groupTodos, dragId)
        hoverIdx == findIndex(groupTodos, hoverId)
        reordered == spliceIn(spliceOut(groupTodos, dragIdx), hoverIdx, groupTodos[dragIdx + 1])
    IN  IF dragIdx = -1 \/ hoverIdx = -1 THEN ts
        ELSE [ i \in DOMAIN ts |->
                 LET newIdx == findIndex(reordered, ts[i].id)
                 IN  IF newIdx # -1 THEN [ts[i] EXCEPT !.order = newIdx] ELSE ts[i] ]

(* App.tsx:307-325: the dragged item takes the target's group, category and
   index; target-bucket items at or behind that index, other than the
   hovered item itself, move back by one. *)
moveShiftTarget(ts, dragId, hoverId, hoverGroup, hoverIdx) ==
    LET hoverTodo == find(ts, hoverId)
    IN  [ i \in DOMAIN ts |->
            IF ts[i].id = dragId
            THEN [ts[i] EXCEPT !.group = storedGroup(hoverGroup),
                               !.category = hoverTodo.category,
                               !.order = hoverIdx]
            ELSE IF /\ displayGroup(ts[i].group) = hoverGroup
                    /\ ts[i].category = hoverTodo.category
                    /\ ts[i].order >= hoverIdx
                    /\ ts[i].id # hoverId
            THEN [ts[i] EXCEPT !.order = ts[i].order + 1]
            ELSE ts[i] ]

(* App.tsx:327-347: renumber what is left of the source group. *)
moveRenumberSource(updated, dragTodo, dragId, dragGroup) ==
    LET sourceTodos == sortByOrder(SelectSeq(updated,
            LAMBDA t : /\ t.category = dragTodo.category
                       /\ displayGroup(t.group) = dragGroup
                       /\ t.id # dragId))
    IN  [ i \in DOMAIN updated |->
            LET sourceIdx == findIndex(sourceTodos, updated[i].id)
            IN  IF /\ sourceIdx # -1
                   /\ displayGroup(updated[i].group) = dragGroup
                   /\ updated[i].category = dragTodo.category
                THEN [updated[i] EXCEPT !.order = sourceIdx]
                ELSE updated[i] ]

(* App.tsx:299-349: the different-group branch. *)
moveAcrossGroup(ts, dragId, hoverId, dragGroup, hoverGroup) ==
    LET dragTodo == find(ts, dragId)
        hoverTodo == find(ts, hoverId)
        targetTodos == sortByOrder(SelectSeq(ts,
            LAMBDA t : t.category = hoverTodo.category /\ displayGroup(t.group) = hoverGroup))
        hoverIdx == findIndex(targetTodos, hoverId)
    IN  moveRenumberSource(moveShiftTarget(ts, dragId, hoverId, hoverGroup, hoverIdx),
                           dragTodo, dragId, dragGroup)

(* App.tsx:277: which branch a move takes. *)
isSameGroupMove(ts, dragId, hoverId, dragGroup, hoverGroup) ==
    dragGroup = hoverGroup /\ find(ts, dragId).category = find(ts, hoverId).category

(* App.tsx:271-351: the array handleMove passes to setTodos. *)
moveUpdated(ts, dragId, hoverId, dragGroup, hoverGroup) ==
    IF isSameGroupMove(ts, dragId, hoverId, dragGroup, hoverGroup)
    THEN moveSameGroup(ts, dragId, hoverId, dragGroup)
    ELSE moveAcrossGroup(ts, dragId, hoverId, dragGroup, hoverGroup)

(* part_002:144-148: the todos batchUpdateOrder sends an update for. *)
batchMutations(original, updated) ==
    { t \in Range(updated) :
        \E prev \in Range(original) :
            prev.id = t.id /\ (prev.order # t.order \/ prev.group # t.group) }

(* part_002:153: the payload of each update, { order, group }. *)
batchPayloads(original, updated) ==
    { [id |-> t.id, order |-> t.order, group |-> t.group] : t \in batchMutations(original, updated) }

----------------------------------------------------------------------------
(* Dates, as the JavaScript Date object computes them.  A date string is   *)
(* <<year, month, day>>; a time value is counted in hours from             *)
(* 2026-01-01T00:00Z; a time zone is its standard UTC offset in hours and  *)
(* the time values between which its clocks are one hour ahead.            *)

isLeapYear(y) == (y % 4 = 0 /\ y % 100 # 0) \/ y % 400 = 0

daysInMonth(y, m) ==
    IF m = 2 THEN (IF isLeapYear(y) THEN 29 ELSE 28)
    ELSE IF m \in {4, 6, 9, 11} THEN 30 ELSE 31

(* The day number of the first day of month m of year y. *)
RECURSIVE dayOfMonthStart(_, _)
dayOfMonthStart(y, m) ==
    IF y = 2026 /\ m = 1 THEN 0
    ELSE IF m = 1 THEN dayOfMonthStart(y - 1, 12) + 31
    ELSE dayOfMonthStart(y, m - 1) + daysInMonth(y, m - 1)

(* Date's MakeDay(year, month, date): the date may run past the month's end. *)
makeDay(y, m, date) == dayOfMonthStart(y, m) + date - 1

(* Date's YearFromTime / MonthFromTime / DateFromTime of a day number. *)
RECURSIVE dateFromDay(_, _, _)
dateFromDay(day, y, m) ==
    IF day >= dayOfMonthStart(y, m) + daysInMonth(y, m)
    THEN (IF m = 12 THEN dateFromDay(day, y + 1, 1) ELSE dateFromDay(day, y, m + 1))
    ELSE <<y, m, day - dayOfMonthStart(y, m) + 1>>

isoDate(day) == dateFromDay(day, 2026, 1)

(* Date's LocalTZA(t, isUTC): the offset in force at the time value t; at a
   skipped or repeated local time the offset before the transition. *)
localTZA(zone, t, isUTC) ==
    IF isUTC
    THEN (IF zone.dstFrom <= t /\ t < zone.dstTo THEN zone.std + 1 ELSE zone.std)
    ELSE (IF zone.dstFrom + zone.std + 1 <= t /\ t < zone.dstTo + zone.std + 1
          THEN zone.std + 1 ELSE zone.std)

(* new Date("YYYY-MM-DD"): a date-only string is UTC midnight. *)
parseDate(str) == makeDay(str[1], str[2], str[3]) * 24

(* App.tsx:151-153, :165: nextDue = new Date(completionDate);
   nextDue.setDate(nextDue.getDate() + repeatDays);
   nextDue.toISOString().split("T")[0].  getDate and setDate work on the
   local time, toISOString on UTC. *)
nextDueDate(zone, todayStr, repeatDays) ==
    LET tv == parseDate(todayStr)
        localTime == tv + localTZA(zone, tv, TRUE)
        localDate == isoDate(localTime \div 24)
        newDay == makeDay(localDate[1], localDate[2], localDate[3] + repeatDays)
        newLocal == newDay * 24 + (localTime % 24)
        newTv == newLocal - localTZA(zone, newLocal, FALSE)
    IN  isoDate(newTv \div 24)

UTC == [std |-> 0, dstFrom |-> 0, dstTo |-> 0]

(* Europe/Berlin in 2026: UTC+1, summer time from 2026-03-29T01:00Z to 2026-10-25T01:00Z. *)
Berlin == [std |-> 1, dstFrom |-> makeDay(2026, 3, 29) * 24 + 1,
           dstTo |-> makeDay(2026, 10, 25) * 24 + 1]

(* America/New_York in 2026: UTC-5, daylight time from 2026-03-08T07:00Z to 2026-11-01T06:00Z. *)
NewYork == [std |-> -5, dstFrom |-> makeDay(2026, 3, 8) * 24 + 7,
            dstTo |-> makeDay(2026, 11, 1) * 24 + 6]

----------------------------------------------------------------------------
(* Handler activations.                                                    *)

NoTodo == Todo(NoId, "", "", "", 0, 0, FALSE, NoDate, NoDate, NoId)

(* What a suspended handler holds in its closure:
     op       the handler
     pc       the await it is suspended at
     id       the id it was called with
     todo     the todo it found at the start (App.tsx:132)
     snapshot the todos array its closure captured (App.tsx:275, :155, :179)
     updates  the partial Todo it sends to updateTodo (App.tsx:137, :257)
     pending  the update payloads of its batch that are still in flight
     failed   the ids whose update rejected
   and, for the group handlers (empty for the others),
     prevOrder   the groupOrder its closure captured (App.tsx:360, :391)
     order       the group order it sends to updateGroupOrder
     names       the group names it was called with
     insertAfter handleMoveGroup's third argument *)
Call(op, pc, id, todo, snapshot, updates, pending, failed) ==
    [ op |-> op, pc |-> pc, id |-> id, todo |-> todo, snapshot |-> snapshot,
      updates |-> updates, pending |-> pending, failed |-> failed,
      prevOrder |-> <<>>, order |-> <<>>, names |-> <<>>, insertAfter |-> FALSE ]

NoUpdates == [completed |-> FALSE, completedAt |-> NoDate]

NoCall == Call("none", "done", NoId, NoTodo, <<>>, NoUpdates, {}, {})

Idle == calls = <<>>

removeAt(s, i) == SubSeq(s, 1, i - 1) \o SubSeq(s, i + 1, Len(s))

(* The live todos: the only ones a view renders (part_005:170-190, 272-273). *)
live(ts) == SelectSeq(ts, LAMBDA t : t.deletedAt = NoDate)

(* handleMove(dragId, hoverId, dragGroup, hoverGroup), App.tsx:269-354, up to
   the await of batchUpdateOrder.  Drag source and drop target are rendered
   items (DraggableTodoItem.tsx:37, :53-57): live, distinct, each with the
   display name of the group it is rendered under. *)
(* The record a view still holds of a todo that is no longer in memory. *)
staleTodo(id) == [NoTodo EXCEPT !.id = id, !.summary = "stale", !.category = "backlog"]

(* The record the list passes to a handler for an id: the todo in memory,
   or what an outdated view shows. *)
shownTodo(ts, id) == IF id \in Ids(ts) THEN find(ts, id) ELSE staleTodo(id)

(* The ids a handler can be called with: the live items on screen and the
   ids that are not in memory. *)
onScreenOrGone(ts, id) == id \in Ids(live(ts)) \/ id \notin Ids(ts)

(* The item handing every hover and drop to onMove. *)
neverOntoItself(dragId, hoverId) == FALSE

(* DraggableTodoItem.tsx:53-55, 66: a hover or drop of an item on itself
   does not reach onMove. *)
isOntoItself(dragId, hoverId) == dragId = hoverId

(* DraggableTodoItem.tsx:45-68 and App.tsx:269-351: an item hovered over or
   dropped on an item.  handleMove returns when either todo is not found
   (App.tsx:273). *)
HandleMove(dragId, hoverId) ==
    /\ onScreenOrGone(todos, dragId)
    /\ onScreenOrGone(todos, hoverId)
    /\ LET found == /\ ~isOntoItself(dragId, hoverId)
                    /\ dragId \in Ids(todos)
                    /\ hoverId \in Ids(todos)
           dragGroup == displayGroup(shownTodo(todos, dragId).group)
           hoverGroup == displayGroup(shownTodo(todos, hoverId).group)
           updated == IF found THEN moveUpdated(todos, dragId, hoverId, dragGroup, hoverGroup)
                      ELSE todos
           call == Call("move", IF found THEN "batch" ELSE "done", dragId,
                        shownTodo(todos, hoverId), todos, NoUpdates,
                        batchPayloads(todos, updated), {})
       IN  /\ todos' = updated
           /\ calls' = IF call.pending = {} THEN calls ELSE Append(calls, call)
           /\ last' = [op |-> "handleMove", call |-> call]
    /\ ops' = ops + 1
    /\ UNCHANGED <<repo, today, tz, groupOrder, groupRepo, shown,
                 user, loadingTodos, loads>>

(* One updateTodo of a move's batch succeeds (part_002:153, :103-107). *)
MoveUpdateOk(i) ==
    /\ i \in DOMAIN calls
    /\ calls[i].op = "move"
    /\ \E p \in calls[i].pending :
         LET call == [calls[i] EXCEPT !.pending = @ \ {p}]
         IN  /\ repo' = updateTodo(repo, p.id, [order |-> p.order, group |-> p.group])
             /\ calls' = IF call.pending = {} THEN removeAt(calls, i)
                         ELSE [calls EXCEPT ![i] = call]
             /\ last' = [op |-> IF call.pending = {} THEN "moveSettled" ELSE "moveUpdate",
                         call |-> call]
    /\ UNCHANGED <<todos, today, tz, ops, groupOrder, groupRepo, shown,
                 user, loadingTodos, loads>>

(* One updateTodo of a move's batch rejects: Promise.all rejects, and so does
   handleMove, which has no catch (App.tsx:297, :350); nothing is restored. *)
MoveUpdateFail(i) ==
    /\ i \in DOMAIN calls
    /\ calls[i].op = "move"
    /\ \E p \in calls[i].pending :
         LET call == [calls[i] EXCEPT !.pending = @ \ {p}, !.failed = @ \cup {p.id}]
         IN  /\ calls' = IF call.pending = {} THEN removeAt(calls, i)
                         ELSE [calls EXCEPT ![i] = call]
             /\ last' = [op |-> IF call.pending = {} THEN "moveSettled" ELSE "moveUpdate",
                         call |-> call]
    /\ UNCHANGED <<todos, repo, today, tz, ops, groupOrder, groupRepo, shown,
                 user, loadingTodos, loads>>

----------------------------------------------------------------------------
(* handleToggle, App.tsx:130-201.                                          *)

(* App.tsx:137-140 *)
toggleUpdates(todo, todayStr) ==
    [ completed |-> ~todo.completed,
      completedAt |-> IF ~todo.completed THEN todayStr ELSE NoDate ]

(* App.tsx:155-158: the largest order among the live todos of the toggled
   item's category and group in the captured array, -1 if there is none. *)
toggleMaxOrder(snapshot, todo) ==
    LET siblings == SelectSeq(snapshot, LAMBDA t : /\ t.category = todo.category
                                                   /\ t.group = todo.group
                                                   /\ t.deletedAt = NoDate)
    IN  IF Len(siblings) > 0
        THEN CHOOSE m \in { siblings[i].order : i \in DOMAIN siblings } :
                 \A i \in DOMAIN siblings : siblings[i].order <= m
        ELSE -1

(* App.tsx:160-172: the todo handed to addTodo (it has no id and no
   completedAt or deletedAt). *)
toggleDraft(zone, snapshot, todo, todayStr) ==
    [ summary |-> todo.summary,
      description |-> todo.description,
      completed |-> FALSE,
      category |-> todo.category,
      dueDate |-> nextDueDate(zone, todayStr, todo.repeatDays),
      starred |-> FALSE,
      repeatDays |-> todo.repeatDays,
      group |-> todo.group,
      priority |-> todo.priority,
      order |-> toggleMaxOrder(snapshot, todo) + 1,
      recurringParentId |-> todo.id ]

(* toggleChild looking the child up by the parent's own recurringParentId:
   it finds nothing for a parent that is not itself a spawned item. *)
toggleChildOfParent(snapshot, todo) ==
    LET kids == SelectSeq(snapshot, LAMBDA t : /\ t.recurringParentId = todo.recurringParentId
                                               /\ todo.recurringParentId # NoId
                                               /\ t.deletedAt = NoDate)
    IN  IF Len(kids) > 0 THEN kids[1].id ELSE NoId

(* App.tsx:179-181: the id of the first live todo of the captured array that
   names the toggled item as its recurring parent, NoId if there is none. *)
toggleChild(snapshot, todo) ==
    LET kids == SelectSeq(snapshot, LAMBDA t : /\ t.recurringParentId = todo.id
                                               /\ t.deletedAt = NoDate)
    IN  IF Len(kids) > 0 THEN kids[1].id ELSE NoId

(* App.tsx:195-197: the catch block puts the toggled item's completed and
   completedAt back to what the handler found. *)
toggleRevert(ts, id, todo) ==
    [ i \in DOMAIN ts |->
        IF ts[i].id = id
        THEN [ts[i] EXCEPT !.completed = todo.completed, !.completedAt = todo.completedAt]
        ELSE ts[i] ]

(* App.tsx:131-146, up to the await of updateTodo.  The checkbox belongs to
   a rendered, hence live, item (TodoItem.tsx:184-191).  A toggle that is
   going to spawn needs room in the table. *)
HandleToggle(id) ==
    /\ onScreenOrGone(todos, id)
    /\ LET todo == shownTodo(todos, id)
           updates == toggleUpdates(todo, today)
           call == Call("toggle", IF id \in Ids(todos) THEN "updateTodo" ELSE "done",
                        id, todo, todos, updates, {}, {})
       IN  /\ (id \in Ids(todos) /\ todo.repeatDays > 0 /\ updates.completed) =>
                  Len(repo) < MaxTodos
           /\ todos' = [ i \in DOMAIN todos |->
                           IF todos[i].id = id THEN merge(todos[i], updates) ELSE todos[i] ]
           /\ calls' = IF id \in Ids(todos) THEN Append(calls, call) ELSE calls
           /\ last' = [op |-> "handleToggle", call |-> call]
    /\ ops' = ops + 1
    /\ UNCHANGED <<repo, today, tz, groupOrder, groupRepo, shown,
                 user, loadingTodos, loads>>

(* A suspended handleToggle at the await `pc`. *)
toggleAt(i, pc) == i \in DOMAIN calls /\ calls[i].op = "toggle" /\ calls[i].pc = pc

(* The call moves on to its next await, or returns. *)
proceed(i, pc, op) ==
    /\ calls' = IF pc = "done" THEN removeAt(calls, i) ELSE [calls EXCEPT ![i].pc = pc]
    /\ last' = [op |-> op, call |-> [calls[i] EXCEPT !.pc = pc]]

(* App.tsx:146-191: updateTodo resolved; a recurring item goes on to spawn
   its next occurrence or to remove the one it spawned. *)
ToggleUpdateOk(i) ==
    /\ toggleAt(i, "updateTodo")
    /\ repo' = updateTodo(repo, calls[i].id, calls[i].updates)
    /\ proceed(i, IF calls[i].todo.repeatDays > 0
                  THEN (IF calls[i].updates.completed THEN "addTodo"
                        ELSE IF toggleChild(calls[i].snapshot, calls[i].todo) # NoId
                        THEN "softDeleteTodo" ELSE "done")
                  ELSE "done", "toggleUpdateOk")
    /\ UNCHANGED <<todos, today, tz, ops, groupOrder, groupRepo, shown,
                 user, loadingTodos, loads>>

(* App.tsx:160-175: addTodo resolved, the store having given the row its id. *)
ToggleAddOk(i) ==
    /\ toggleAt(i, "addTodo")
    /\ Len(repo) < MaxTodos
    /\ repo' = Append(repo, insertedRow(Len(repo) + 1,
                   toggleDraft(tz, calls[i].snapshot, calls[i].todo, calls[i].updates.completedAt)))
    /\ proceed(i, "fetchTodos", "toggleAddOk")
    /\ UNCHANGED <<todos, today, tz, ops, groupOrder, groupRepo, shown,
                 user, loadingTodos, loads>>

(* App.tsx:175-176: the refetch resolved and replaces the array. *)
ToggleFetchOk(i) ==
    /\ toggleAt(i, "fetchTodos")
    /\ todos' \in fetchTodos(repo)
    /\ proceed(i, "done", "toggleFetchOk")
    /\ UNCHANGED <<repo, today, tz, ops, groupOrder, groupRepo, shown,
                 user, loadingTodos, loads>>

(* App.tsx:183-188: softDeleteTodo resolved; the child is marked in memory. *)
ToggleSoftDeleteOk(i) ==
    /\ toggleAt(i, "softDeleteTodo")
    /\ LET child == toggleChild(calls[i].snapshot, calls[i].todo)
       IN  /\ repo' = softDeleteTodo(repo, child, today)
           /\ todos' = [ j \in DOMAIN todos |->
                           IF todos[j].id = child THEN [todos[j] EXCEPT !.deletedAt = today]
                           ELSE todos[j] ]
    /\ proceed(i, "done", "toggleSoftDeleteOk")
    /\ UNCHANGED <<today, tz, ops, groupOrder, groupRepo, shown,
                 user, loadingTodos, loads>>

(* App.tsx:192-198: the awaited call rejected (updateTodo, addTodo,
   fetchTodos or softDeleteTodo, whichever the handler was suspended at). *)
ToggleFail(i) ==
    /\ i \in DOMAIN calls
    /\ calls[i].op = "toggle"
    /\ todos' = toggleRevert(todos, calls[i].id, calls[i].todo)
    /\ calls' = removeAt(calls, i)
    /\ last' = [op |-> "toggleFail", call |-> calls[i]]
    /\ UNCHANGED <<repo, today, tz, ops, groupOrder, groupRepo, shown,
                 user, loadingTodos, loads>>

----------------------------------------------------------------------------
(* handleUpdate, App.tsx:256-267, as the edit form calls it.               *)

(* TodoItem.tsx:36-46, :63-66: the form edits a copy of the todo and hands
   the whole copy to onUpdate when it closes; its checkbox flips the copy's
   completed flag and nothing else. *)
editForm(todo, flipCompleted) ==
    IF flipCompleted THEN [todo EXCEPT !.completed = ~todo.completed] ELSE todo

(* TodoItem.tsx:126-127: the form's group field sets the copy's group to
   the text typed. *)
editGroup(todo, group) == [todo EXCEPT !.group = group]

(* App.tsx:257-261, up to the await of updateTodo.  The form edits here the
   completed flag, the star, the group, or several of them. *)
HandleUpdate(id, flipCompleted, flipStarred, group) ==
    /\ onScreenOrGone(todos, id)
    /\ flipCompleted \/ flipStarred \/ group # shownTodo(todos, id).group
    /\ LET todo == shownTodo(todos, id)
           edited == editGroup(editForm(todo, flipCompleted), group)
           updates == IF flipStarred THEN [edited EXCEPT !.starred = ~todo.starred] ELSE edited
           call == Call("update", "updateTodo", id, todo, todos, updates, {}, {})
       IN  /\ todos' = [ i \in DOMAIN todos |->
                           IF todos[i].id = id THEN merge(todos[i], updates) ELSE todos[i] ]
           /\ calls' = Append(calls, call)
           /\ last' = [op |-> "handleUpdate", call |-> call]
    /\ ops' = ops + 1
    /\ UNCHANGED <<repo, today, tz, groupOrder, groupRepo, shown,
                 user, loadingTodos, loads>>

(* App.tsx:261: updateTodo resolved. *)
UpdateOk(i) ==
    /\ i \in DOMAIN calls
    /\ calls[i].op = "update"
    /\ repo' = updateTodo(repo, calls[i].id, calls[i].updates)
    /\ calls' = removeAt(calls, i)
    /\ last' = [op |-> "updateOk", call |-> calls[i]]
    /\ UNCHANGED <<todos, today, tz, ops, groupOrder, groupRepo, shown,
                 user, loadingTodos, loads>>

(* App.tsx:262-264: updateTodo rejected; the error is logged. *)
UpdateFail(i) ==
    /\ i \in DOMAIN calls
    /\ calls[i].op = "update"
    /\ calls' = removeAt(calls, i)
    /\ last' = [op |-> "updateFail", call |-> calls[i]]
    /\ UNCHANGED <<todos, repo, today, tz, ops, groupOrder, groupRepo, shown,
                 user, loadingTodos, loads>>

----------------------------------------------------------------------------
(* handleDelete, App.tsx:203-216.                                          *)

(* App.tsx:205-209, up to the await of softDeleteTodo: the delete button of
   an item, in the current view or in an outdated one that still shows an
   item deleted since. *)
HandleDelete(id) ==
    /\ LET call == Call("delete", "softDeleteTodo", id, shownTodo(todos, id), todos, NoUpdates, {}, {})
       IN  /\ todos' = [ i \in DOMAIN todos |->
                           IF todos[i].id = id THEN [todos[i] EXCEPT !.deletedAt = today]
                           ELSE todos[i] ]
           /\ calls' = Append(calls, call)
           /\ last' = [op |-> "handleDelete", call |-> call]
    /\ ops' = ops + 1
    /\ UNCHANGED <<repo, today, tz, groupOrder, groupRepo, shown,
                 user, loadingTodos, loads>>

(* App.tsx:209: softDeleteTodo resolved. *)
DeleteOk(i) ==
    /\ i \in DOMAIN calls
    /\ calls[i].op = "delete"
    /\ repo' = softDeleteTodo(repo, calls[i].id, today)
    /\ calls' = removeAt(calls, i)
    /\ last' = [op |-> "deleteOk", call |-> calls[i]]
    /\ UNCHANGED <<todos, today, tz, ops, groupOrder, groupRepo, shown,
                 user, loadingTodos, loads>>

(* App.tsx:210-213: softDeleteTodo rejected; deletedAt goes back to null. *)
DeleteFail(i) ==
    /\ i \in DOMAIN calls
    /\ calls[i].op = "delete"
    /\ todos' = [ j \in DOMAIN todos |->
                    IF todos[j].id = calls[i].id THEN [todos[j] EXCEPT !.deletedAt = NoDate]
                    ELSE todos[j] ]
    /\ calls' = removeAt(calls, i)
    /\ last' = [op |-> "deleteFail", call |-> calls[i]]
    /\ UNCHANGED <<repo, today, tz, ops, groupOrder, groupRepo, shown,
                 user, loadingTodos, loads>>

----------------------------------------------------------------------------
(* handleAdd, App.tsx:218-254.                                             *)

(* App.tsx:222-225: the largest order among the todos of the category that
   have no group, -1 if there is none. *)
addMaxOrder(snapshot, category) ==
    LET ungrouped == SelectSeq(snapshot, LAMBDA t : t.category = category /\ t.group = "")
    IN  IF Len(ungrouped) > 0
        THEN CHOOSE m \in { ungrouped[i].order : i \in DOMAIN ungrouped } :
                 \A i \in DOMAIN ungrouped : ungrouped[i].order <= m
        ELSE -1

(* App.tsx:228-240: the todo handed to addTodo. *)
addDraft(snapshot, text, category) ==
    [ summary |-> text,
      description |-> "",
      completed |-> FALSE,
      category |-> category,
      dueDate |-> NoDate,
      starred |-> FALSE,
      repeatDays |-> 0,
      group |-> "",
      priority |-> "",
      order |-> addMaxOrder(snapshot, category) + 1,
      recurringParentId |-> NoId ]

(* App.tsx:219-228, up to the await of addTodo; nothing is set before it.
   The form hands over a trimmed, non-empty text and the category of the
   view (part_005:102-109). *)
HandleAdd(text, category) ==
    /\ text # ""
    /\ Len(repo) < MaxTodos
    /\ LET call == [ Call("add", "addTodo", NoId, NoTodo, todos, NoUpdates, {}, {})
                     EXCEPT !.names = <<text, category>> ]
       IN  /\ calls' = Append(calls, call)
           /\ last' = [op |-> "handleAdd", call |-> call]
    /\ ops' = ops + 1
    /\ UNCHANGED <<todos, repo, today, tz, groupOrder, groupRepo, shown,
                 user, loadingTodos, loads>>

(* handleAdd appending the record under an id made up on the client. *)
addCreatedClientId(prev, created) == Append(prev, [created EXCEPT !.id = -(Len(prev) + 1)])

(* App.tsx:242-243: what handleAdd sets when addTodo returned the record. *)
addCreated(prev, created) == Append(prev, created)

(* part_002:88-93, App.tsx:242-247: addTodo resolved, the store having given
   the row its id.  When the store returns the row, the record made of it is
   appended; when it returns none, addTodo gives null and handleAdd goes on
   to refetch. *)
AddOk(i, echoed) ==
    /\ i \in DOMAIN calls
    /\ calls[i].op = "add"
    /\ calls[i].pc = "addTodo"
    /\ Len(repo) < MaxTodos
    /\ LET row == insertedRow(Len(repo) + 1,
                      addDraft(calls[i].snapshot, calls[i].names[1], calls[i].names[2]))
           call == [calls[i] EXCEPT !.pc = IF echoed THEN "done" ELSE "fetchTodos",
                                    !.id = row.id]
       IN  /\ repo' = Append(repo, row)
           /\ todos' = IF echoed THEN addCreated(todos, mapRow(row)) ELSE todos
           /\ calls' = IF echoed THEN removeAt(calls, i) ELSE [calls EXCEPT ![i] = call]
           /\ last' = [op |-> "addOk", call |-> call]
    /\ UNCHANGED <<today, tz, ops, groupOrder, groupRepo, shown,
                 user, loadingTodos, loads>>

(* App.tsx:246-247: the fallback refetch resolved and replaces the array. *)
AddFetchOk(i) ==
    /\ i \in DOMAIN calls
    /\ calls[i].op = "add"
    /\ calls[i].pc = "fetchTodos"
    /\ todos' \in fetchTodos(repo)
    /\ calls' = removeAt(calls, i)
    /\ last' = [op |-> "addFetchOk", call |-> [calls[i] EXCEPT !.pc = "done"]]
    /\ UNCHANGED <<repo, today, tz, ops, groupOrder, groupRepo, shown,
                 user, loadingTodos, loads>>

(* App.tsx:249-251: addTodo, or the fallback refetch, rejected; the error is
   logged. *)
AddFail(i) ==
    /\ i \in DOMAIN calls
    /\ calls[i].op = "add"
    /\ calls' = removeAt(calls, i)
    /\ last' = [op |-> "addFail", call |-> calls[i]]
    /\ UNCHANGED <<todos, repo, today, tz, ops, groupOrder, groupRepo, shown,
                 user, loadingTodos, loads>>

----------------------------------------------------------------------------
(* handleMoveGroup, App.tsx:356-384.                                       *)

(* Array.prototype.indexOf: the 0-based index of the first x in s, -1 if
   there is none. *)
indexOf(s, x) ==
    IF \E i \in DOMAIN s : s[i] = x
    THEN (CHOOSE i \in DOMAIN s : s[i] = x /\ \A j \in 1..(i - 1) : s[j] # x) - 1
    ELSE -1

(* Array.prototype.includes *)
includes(s, x) == \E i \in DOMAIN s : s[i] = x

(* handleMoveGroup without the correction for the removed name (App.tsx:371
   left out). *)
moveGroupNextUnadjusted(order, dragGroup, hoverGroup, insertAfter) ==
    LET tracked == IF includes(order, dragGroup) THEN order ELSE Append(order, dragGroup)
        next == IF includes(tracked, hoverGroup) THEN tracked ELSE Append(tracked, hoverGroup)
        dragIdx == indexOf(next, dragGroup)
        hoverIdx == indexOf(next, hoverGroup)
        insertIdx == IF insertAfter THEN hoverIdx + 1 ELSE hoverIdx
    IN  spliceIn(spliceOut(next, dragIdx), insertIdx, dragGroup)

(* App.tsx:360-372: the list handleMoveGroup sets. *)
moveGroupNext(order, dragGroup, hoverGroup, insertAfter) ==
    LET tracked == IF includes(order, dragGroup) THEN order ELSE Append(order, dragGroup)
        next == IF includes(tracked, hoverGroup) THEN tracked ELSE Append(tracked, hoverGroup)
        dragIdx == indexOf(next, dragGroup)
        hoverIdx == indexOf(next, hoverGroup)
        insertIdx == IF insertAfter THEN hoverIdx + 1 ELSE hoverIdx
        adjusted == IF dragIdx < hoverIdx THEN insertIdx - 1 ELSE insertIdx
    IN  spliceIn(spliceOut(next, dragIdx), adjusted, dragGroup)

(* The group names the Backlog view renders a header for (part_005:271-284,
   :301-310, :347-356): the display groups of the live todos. *)
renderedGroups(ts) == { displayGroup(t.group) : t \in Range(live(ts)) }

(* App.tsx:357-377, up to the await of updateGroupOrder.  A header is dragged
   over another header (DraggableGroupHeader.tsx:45-55, insertAfter left
   out) or over the trailing drop zone (GroupDropZone.tsx:22-30, insertAfter
   true). *)
(* App.tsx:358: the group moves handleMoveGroup returns from at once. *)
moveGroupIgnored(dragGroup, hoverGroup) == dragGroup = hoverGroup

HandleMoveGroup(dragGroup, hoverGroup, insertAfter) ==
    /\ dragGroup \in renderedGroups(todos)
    /\ hoverGroup \in renderedGroups(todos)
    /\ LET ignored == moveGroupIgnored(dragGroup, hoverGroup)
           next == IF ignored THEN groupOrder
                   ELSE moveGroupNext(groupOrder, dragGroup, hoverGroup, insertAfter)
           call == [ Call("moveGroup", IF ignored THEN "done" ELSE "updateGroupOrder",
                          NoId, NoTodo, todos, NoUpdates, {}, {})
                     EXCEPT !.prevOrder = groupOrder, !.order = next,
                            !.names = <<dragGroup, hoverGroup>>, !.insertAfter = insertAfter ]
       IN  /\ groupOrder' = next
           /\ calls' = IF ignored THEN calls ELSE Append(calls, call)
           /\ last' = [op |-> "handleMoveGroup", call |-> call]
    /\ ops' = ops + 1
    /\ UNCHANGED <<todos, repo, today, tz, groupRepo, shown,
                 user, loadingTodos, loads>>

(* App.tsx:377, part_002:173-188: updateGroupOrder resolved. *)
MoveGroupOk(i) ==
    /\ i \in DOMAIN calls
    /\ calls[i].op = "moveGroup"
    /\ groupRepo' = calls[i].order
    /\ calls' = removeAt(calls, i)
    /\ last' = [op |-> "moveGroupOk", call |-> calls[i]]
    /\ UNCHANGED <<todos, repo, today, tz, ops, groupOrder, shown,
                 user, loadingTodos, loads>>

(* App.tsx:378-381: updateGroupOrder rejected; the list the handler captured
   is set again. *)
MoveGroupFail(i) ==
    /\ i \in DOMAIN calls
    /\ calls[i].op = "moveGroup"
    /\ groupOrder' = calls[i].prevOrder
    /\ calls' = removeAt(calls, i)
    /\ last' = [op |-> "moveGroupFail", call |-> calls[i]]
    /\ UNCHANGED <<todos, repo, today, tz, ops, groupRepo, shown,
                 user, loadingTodos, loads>>

----------------------------------------------------------------------------
(* handleRenameGroup, App.tsx:386-418.                                     *)

(* String.prototype.trim, on the names the model uses. *)
trim(name) == IF name = " " THEN "" ELSE name

(* App.tsx:395-399 *)
renameTodos(ts, oldName, newName) ==
    [ i \in DOMAIN ts |->
        IF displayGroup(ts[i].group) = oldName
        THEN [ts[i] EXCEPT !.group = storedGroup(newName)] ELSE ts[i] ]

(* A rename that drops oldName from the list and appends newName. *)
renameOrderAppended(order, oldName, newName) ==
    IF includes(order, oldName) THEN Append(SelectSeq(order, LAMBDA g : g # oldName), newName)
    ELSE order

(* App.tsx:400 *)
renameOrder(order, oldName, newName) ==
    [ i \in DOMAIN order |-> IF order[i] = oldName THEN newName ELSE order[i] ]

(* App.tsx:406-410: the calls handed to Promise.all: one updateTodo per todo
   of the captured array displayed under oldName, and one updateGroupOrder. *)
renameBatch(prevTodos, oldName, newName) ==
    { [kind |-> "updateTodo", id |-> t.id, group |-> storedGroup(newName)] :
        t \in { u \in Range(prevTodos) : displayGroup(u.group) = oldName } }
    \cup { [kind |-> "updateGroupOrder", id |-> NoId, group |-> ""] }

(* App.tsx:387-410, up to the await of Promise.all.  The header of a rendered
   group is edited (DraggableGroupHeader.tsx:75-76). *)
(* App.tsx:388: the renames handleRenameGroup returns from at once (a user
   is signed in throughout). *)
renameIgnored(oldName, newName) == oldName = newName \/ trim(newName) = ""

HandleRenameGroup(oldName, newName) ==
    /\ oldName \in renderedGroups(todos)
    /\ LET ignored == renameIgnored(oldName, newName)
           call == [ Call("rename", IF ignored THEN "done" ELSE "batch", NoId, NoTodo, todos,
                          NoUpdates,
                          IF ignored THEN {} ELSE renameBatch(todos, oldName, newName), {})
                     EXCEPT !.prevOrder = groupOrder,
                            !.order = IF ignored THEN groupOrder
                                      ELSE renameOrder(groupOrder, oldName, newName),
                            !.names = <<oldName, newName>> ]
       IN  /\ todos' = IF ignored THEN todos ELSE renameTodos(todos, oldName, newName)
           /\ groupOrder' = call.order
           /\ calls' = IF ignored THEN calls ELSE Append(calls, call)
           /\ last' = [op |-> "handleRenameGroup", call |-> call]
    /\ ops' = ops + 1
    /\ UNCHANGED <<repo, today, tz, groupRepo, shown,
                 user, loadingTodos, loads>>

(* A catch block that restores the todos only. *)
renameRevertedTodosOnly(call) == [todos |-> call.snapshot, groupOrder |-> call.order]

(* App.tsx:413-414: what the catch block sets. *)
renameReverted(call) == [todos |-> call.snapshot, groupOrder |-> call.prevOrder]

(* One call of a rename's batch resolved (part_002:103-107, :177-187). *)
RenameUpdateOk(i) ==
    /\ i \in DOMAIN calls
    /\ calls[i].op = "rename"
    /\ \E p \in calls[i].pending :
         LET call == [calls[i] EXCEPT !.pending = @ \ {p}]
         IN  /\ IF p.kind = "updateTodo"
                THEN /\ repo' = updateTodo(repo, p.id, [group |-> p.group])
                     /\ UNCHANGED groupRepo
                ELSE /\ groupRepo' = call.order
                     /\ UNCHANGED repo
             /\ calls' = IF call.pending = {} THEN removeAt(calls, i)
                         ELSE [calls EXCEPT ![i] = call]
             /\ last' = [op |-> IF call.pending = {} THEN "renameSettled" ELSE "renameUpdate",
                         call |-> call]
    /\ UNCHANGED <<todos, today, tz, ops, groupOrder, shown,
                 user, loadingTodos, loads>>

(* One call of a rename's batch rejected.  The first rejection rejects
   Promise.all and the catch block sets the captured todos and group order
   again (App.tsx:411-415); later rejections are not observed. *)
RenameUpdateFail(i) ==
    /\ i \in DOMAIN calls
    /\ calls[i].op = "rename"
    /\ \E p \in calls[i].pending :
         LET call == [calls[i] EXCEPT !.pending = @ \ {p}, !.failed = @ \cup {p.id}]
         IN  /\ IF calls[i].failed = {}
                THEN /\ todos' = renameReverted(calls[i]).todos
                     /\ groupOrder' = renameReverted(calls[i]).groupOrder
                ELSE UNCHANGED <<todos, groupOrder>>
             /\ calls' = IF call.pending = {} THEN removeAt(calls, i)
                         ELSE [calls EXCEPT ![i] = call]
             /\ last' = [op |-> IF calls[i].failed = {} THEN "renameRejected"
                                ELSE "renameUpdate",
                         call |-> call]
    /\ UNCHANGED <<repo, today, tz, ops, groupRepo, shown,
                 user, loadingTodos, loads>>

----------------------------------------------------------------------------
(* TodoList, part_005: what is rendered from todos and groupOrder.         *)

(* JavaScript numbers as the comparators produce them: a finite integer,
   +Infinity or -Infinity (n is 1 or -1), or NaN. *)
num(n) == [kind |-> "finite", n |-> n]
Infinity == [kind |-> "infinity", n |-> 1]
NaN == [kind |-> "NaN", n |-> 0]

(* a - b: Infinity - Infinity is NaN. *)
minus(a, b) ==
    IF a.kind = "NaN" \/ b.kind = "NaN" THEN NaN
    ELSE IF a.kind = "infinity" /\ b.kind = "infinity"
         THEN (IF a.n = b.n THEN NaN ELSE a)
    ELSE IF a.kind = "infinity" THEN a
    ELSE IF b.kind = "infinity" THEN [kind |-> "infinity", n |-> -b.n]
    ELSE num(a.n - b.n)

(* x !== 0: true of NaN. *)
notZero(x) == ~(x.kind = "finite" /\ x.n = 0)

(* What Array.prototype.sort makes of a comparator's result: NaN counts
   as +0. *)
isNegative(x) == x.kind # "NaN" /\ x.n < 0

(* types.ts:25-30 *)
PRIORITY_VALUES == [p \in {"!!!", "!!", "!", ""} |->
                      IF p = "!!!" THEN 3 ELSE IF p = "!!" THEN 2 ELSE IF p = "!" THEN 1 ELSE 0]

(* part_005:35-39 *)
groupRank(group, order) ==
    IF Len(order) = 0 THEN Infinity
    ELSE LET idx == indexOf(order, group)
         IN  IF idx = -1 THEN Infinity ELSE num(idx)

(* part_005:46-58 *)
byPriorityGroupOrder(a, b, order) ==
    LET pDiff == num(PRIORITY_VALUES[b.priority] - PRIORITY_VALUES[a.priority])
        gDiff == minus(groupRank(displayGroup(a.group), order),
                       groupRank(displayGroup(b.group), order))
    IN  IF notZero(pDiff) THEN pDiff
        ELSE IF notZero(gDiff) THEN gDiff
        ELSE num(a.order - b.order)

(* part_005:182-186: the comparator of Next Up. *)
byStarThenPriority(a, b, order) ==
    IF a.starred # b.starred THEN (IF b.starred THEN num(1) ELSE num(-1))
    ELSE byPriorityGroupOrder(a, b, order)

(* The collation order of the group names of the model. *)
Collation == <<"Errands", "Home", "Personal", "Ungrouped", "Work">>

(* String.prototype.localeCompare *)
localeCompare(a, b) == num(indexOf(Collation, a) - indexOf(Collation, b))

(* part_005:191-194: the comparator of Completed Today. *)
byGroupNameThenOrder(a, b, order) ==
    LET g == localeCompare(displayGroup(a.group), displayGroup(b.group))
    IN  IF notZero(g) THEN g ELSE num(a.order - b.order)

(* part_005:80: the comparator of the group keys. *)
byGroupRank(a, b, order) == minus(groupRank(a, order), groupRank(b, order))

(* The comparators by name. *)
compare(by, a, b, order) ==
    CASE by = "byPriorityGroupOrder" -> byPriorityGroupOrder(a, b, order)
      [] by = "byStarThenPriority" -> byStarThenPriority(a, b, order)
      [] by = "byGroupNameThenOrder" -> byGroupNameThenOrder(a, b, order)
      [] by = "byGroupRank" -> byGroupRank(a, b, order)
      [] by = "byOrder" -> num(a.order - b.order)

(* Insert x into a sorted array in front of the first element it compares
   below. *)
RECURSIVE insertSorted(_, _, _, _)
insertSorted(by, sorted, x, order) ==
    IF sorted = <<>> THEN <<x>>
    ELSE IF isNegative(compare(by, x, sorted[1], order)) THEN <<x>> \o sorted
    ELSE <<sorted[1]>> \o insertSorted(by, SubSeq(sorted, 2, Len(sorted)), x, order)

(* Array.prototype.sort(comparator): stable. *)
RECURSIVE sort(_, _, _)
sort(by, s, order) ==
    IF s = <<>> THEN <<>>
    ELSE insertSorted(by, sort(by, SubSeq(s, 1, Len(s) - 1), order), s[Len(s)], order)

(* d <= today on dates written YYYY-MM-DD. *)
dateLeq(d, e) ==
    \/ d[1] < e[1]
    \/ d[1] = e[1] /\ d[2] < e[2]
    \/ d[1] = e[1] /\ d[2] = e[2] /\ d[3] <= e[3]

(* Array.prototype.slice(0, n) *)
slice(s, n) == SubSeq(s, 1, IF Len(s) < n THEN Len(s) ELSE n)

(* The due filter letting soft-deleted items through. *)
dueTodosDeletedToo(ts, todayStr) ==
    SelectSeq(ts, LAMBDA t : /\ ~t.completed
                             /\ t.dueDate # NoDate
                             /\ dateLeq(t.dueDate, todayStr))

(* part_005:166-171: the items that are due or overdue. *)
dueTodos(ts, todayStr) ==
    SelectSeq(ts, LAMBDA t : /\ ~t.completed
                             /\ t.dueDate # NoDate
                             /\ dateLeq(t.dueDate, todayStr)
                             /\ t.deletedAt = NoDate)

(* part_005:163-203 *)
todayBuckets(ts, order, todayStr) ==
    LET due == dueTodos(ts, todayStr)
        starredDue == sort("byPriorityGroupOrder",
                           SelectSeq(due, LAMBDA t : t.starred), order)
        scheduledDue == sort("byPriorityGroupOrder",
                             SelectSeq(due, LAMBDA t : ~t.starred), order)
        nextUp == slice(sort("byStarThenPriority",
                             SelectSeq(ts, LAMBDA t : /\ ~t.completed
                                                      /\ t.dueDate = NoDate
                                                      /\ t.deletedAt = NoDate), order), 3)
        completedToday == sort("byGroupNameThenOrder",
                               SelectSeq(ts, LAMBDA t : /\ t.completed
                                                        /\ t.completedAt = todayStr
                                                        /\ t.deletedAt = NoDate), order)
    IN  [ starredDue |-> starredDue, scheduledDue |-> scheduledDue, nextUp |-> nextUp,
          completedToday |-> completedToday,
          isEmpty |-> /\ Len(starredDue) = 0
                      /\ Len(scheduledDue) = 0
                      /\ Len(nextUp) = 0
                      /\ Len(completedToday) = 0 ]

(* The keys of the record groupByName builds, in the order they were
   created: the display groups of the items by first appearance. *)
RECURSIVE groupKeys(_)
groupKeys(items) ==
    IF items = <<>> THEN <<>>
    ELSE LET front == groupKeys(SubSeq(items, 1, Len(items) - 1))
             name == displayGroup(items[Len(items)].group)
         IN  IF includes(front, name) THEN front ELSE Append(front, name)

(* part_005:61-72: one entry per key, its items sorted by order. *)
groupByName(items) ==
    LET keys == groupKeys(items)
    IN  [ k \in DOMAIN keys |->
            [ name |-> keys[k],
              items |-> sort("byOrder",
                             SelectSeq(items, LAMBDA t : displayGroup(t.group) = keys[k]),
                             <<>>) ] ]

(* The keys as Object.keys gives them, not sorted. *)
groupKeysAsInserted(groups, order) == [ k \in DOMAIN groups |-> groups[k].name ]

(* part_005:75-82 *)
sortGroupKeys(groups, order) ==
    sort("byGroupRank", [ k \in DOMAIN groups |-> groups[k].name ], order)

(* part_005:271-284: the memo of the backlog view. *)
backlogGroups(ts, order) ==
    LET active == SelectSeq(ts, LAMBDA t : ~t.completed /\ t.deletedAt = NoDate)
        completed == SelectSeq(ts, LAMBDA t : t.completed /\ t.deletedAt = NoDate)
        ag == groupByName(active)
        cg == groupByName(completed)
    IN  [ activeGroups |-> ag, activeKeys |-> sortGroupKeys(ag, order),
          completedGroups |-> cg, completedKeys |-> sortGroupKeys(cg, order) ]

(* part_005:113-120.  Timestamps are taken at the start of their UTC day. *)
recentlyDeleted(ts, now) ==
    SelectSeq(ts, LAMBDA t :
        /\ t.deletedAt # NoDate
        /\ makeDay(now[1], now[2], now[3])
             - makeDay(t.deletedAt[1], t.deletedAt[2], t.deletedAt[3]) <= 30)

(* Nothing rendered yet (App.tsx:427-429: "Loading..."). *)
NoView ==
    [ view |-> "none", starredDue |-> <<>>, scheduledDue |-> <<>>, nextUp |-> <<>>,
      completedToday |-> <<>>, isEmpty |-> FALSE, activeKeys |-> <<>>, activeGroups |-> <<>>,
      completedKeys |-> <<>>, completedGroups |-> <<>>, recentlyDeleted |-> <<>> ]

(* part_005:113-120, 163-203, 271-284: what TodoList computes for a view. *)
project(view, ts, order, now) ==
    CASE view = "today" ->
           LET b == todayBuckets(ts, order, now)
           IN  [NoView EXCEPT !.view = view, !.starredDue = b.starredDue,
                              !.scheduledDue = b.scheduledDue, !.nextUp = b.nextUp,
                              !.completedToday = b.completedToday, !.isEmpty = b.isEmpty]
      [] view = "backlog" ->
           LET g == backlogGroups(ts, order)
           IN  [NoView EXCEPT !.view = view, !.activeGroups = g.activeGroups,
                              !.activeKeys = g.activeKeys,
                              !.completedGroups = g.completedGroups,
                              !.completedKeys = g.completedKeys]
      [] view = "recentlyDeleted" ->
           [NoView EXCEPT !.view = view, !.recentlyDeleted = recentlyDeleted(ts, now)]

(* The props sorted where they are: Array.prototype.sort called on the
   todos array itself. *)
propsSortedInPlace(view, ts, order) ==
    [ todos |-> sort(IF view = "today" THEN "byPriorityGroupOrder" ELSE "byOrder", ts, order),
      groupOrder |-> order ]

(* The props once the view is computed.  Every sort of part_005 is called on
   an array that filter (169-194, 273-274), groupByName (62-66) or the spread
   of Object.keys (79) has just created, so the arrays handed in are only
   read. *)
propsAfter(view, ts, order) == [ todos |-> ts, groupOrder |-> order ]

(* TodoList renders one of its views. *)
Render(view) ==
    /\ shown' = project(view, todos, groupOrder, today)
    /\ todos' = propsAfter(view, todos, groupOrder).todos
    /\ groupOrder' = propsAfter(view, todos, groupOrder).groupOrder
    /\ last' = [op |-> "render", call |-> [NoCall EXCEPT !.names = <<view>>]]
    /\ UNCHANGED <<repo, calls, today, tz, ops, groupRepo,
                 user, loadingTodos, loads>>

----------------------------------------------------------------------------
(* Starting states: the table as a load found it, and the array fetched.   *)

(* Work [A:0, B:1, C:2] and Home [Y:0, Z:1], all in the backlog. *)
MoveTodosPlain ==
    << Todo(1, "A", "backlog", "Work", 0, 0, FALSE, NoDate, NoDate, NoId),
       Todo(2, "B", "backlog", "Work", 1, 0, FALSE, NoDate, NoDate, NoId),
       Todo(3, "C", "backlog", "Work", 2, 0, FALSE, NoDate, NoDate, NoId),
       Todo(4, "Y", "backlog", "Home", 0, 0, FALSE, NoDate, NoDate, NoId),
       Todo(5, "Z", "backlog", "Home", 1, 0, FALSE, NoDate, NoDate, NoId) >>

(* Work holds a soft-deleted item between two live ones (its order was taken
   again by a recurrence spawn), one Work item is in the other category, and
   one item has no group. *)
MoveTodosMixed ==
    << Todo(1, "A", "backlog", "Work", 0, 0, FALSE, NoDate, NoDate, NoId),
       Todo(2, "D", "backlog", "Work", 1, 0, FALSE, NoDate, <<2026, 2, 1>>, NoId),
       Todo(3, "B", "backlog", "Work", 1, 0, FALSE, NoDate, NoDate, NoId),
       Todo(4, "T", "today", "Work", 0, 0, FALSE, NoDate, NoDate, NoId),
       Todo(5, "U", "backlog", "", 0, 0, FALSE, NoDate, NoDate, NoId) >>

tableOf(ts) == [ i \in DOMAIN ts |-> rowOf(ts[i]) ]

InitMove ==
    /\ repo \in { tableOf(MoveTodosPlain), tableOf(MoveTodosMixed) }
    /\ todos \in fetchTodos(repo)
    /\ calls = <<>>
    /\ today = <<2026, 2, 7>>
    /\ tz = UTC
    /\ ops = 0
    /\ last = [op |-> "init", call |-> NoCall]
    /\ groupRepo = <<"Work", "Home">>
    /\ groupOrder = groupRepo
    /\ shown = NoView
    /\ loaded

NextMove ==
    \/ \E dragId, hoverId \in 1..MaxTodos :
         Idle /\ ops < MaxMoves /\ HandleMove(dragId, hoverId)
    \/ \E i \in 1..Len(calls) : MoveUpdateOk(i)
    \/ \E i \in 1..Len(calls) : MoveUpdateFail(i)

SpecMove == InitMove /\ [][NextMove]_vars

(* Moves one after the other, every update of their batches succeeding. *)
NextMoveOk ==
    \/ \E dragId, hoverId \in 1..MaxTodos :
         Idle /\ ops < MaxMoves /\ HandleMove(dragId, hoverId)
    \/ \E i \in 1..Len(calls) : MoveUpdateOk(i)

SpecMoveOk == InitMove /\ [][NextMoveOk]_vars

(* Work [P:0, Q:1] with P repeating every `repeatDays` days, and a
   soft-deleted item behind them. *)
ToggleTodos(repeatDays) ==
    << Todo(1, "P", "backlog", "Work", 0, repeatDays, FALSE, NoDate, NoDate, NoId),
       Todo(2, "Q", "backlog", "Work", 1, 0, FALSE, NoDate, NoDate, NoId),
       Todo(3, "D", "backlog", "Work", 2, 0, FALSE, NoDate, <<2026, 2, 1>>, NoId) >>

(* Completion dates: mid-month, before a month end, before the year end,
   and before the two zones' clocks go forward. *)
CompletionDates == { <<2026, 2, 7>>, <<2026, 2, 25>>, <<2026, 12, 28>>, <<2026, 3, 7>>, <<2026, 3, 25>> }

InitToggle ==
    /\ \E repeatDays \in {1, 7} : repo = tableOf(ToggleTodos(repeatDays))
    /\ todos \in fetchTodos(repo)
    /\ calls = <<>>
    /\ today \in CompletionDates
    /\ tz \in {UTC, Berlin, NewYork}
    /\ ops = 0
    /\ last = [op |-> "init", call |-> NoCall]
    /\ groupRepo = <<"Work", "Home">>
    /\ groupOrder = groupRepo
    /\ shown = NoView
    /\ loaded

(* Toggles one after the other, every persistence call succeeding. *)
NextToggle ==
    \/ \E id \in 1..MaxTodos : Idle /\ ops < MaxToggles /\ HandleToggle(id)
    \/ \E i \in 1..Len(calls) : ToggleUpdateOk(i)
    \/ \E i \in 1..Len(calls) : ToggleAddOk(i)
    \/ \E i \in 1..Len(calls) : ToggleFetchOk(i)
    \/ \E i \in 1..Len(calls) : ToggleSoftDeleteOk(i)

SpecToggle == InitToggle /\ [][NextToggle]_vars

(* Work with a live and a soft-deleted item, Personal with two items, and
   one item without a group. *)
GroupTodos ==
    << Todo(1, "A", "backlog", "Work", 0, 0, FALSE, NoDate, NoDate, NoId),
       Todo(2, "P", "backlog", "Personal", 0, 0, FALSE, NoDate, NoDate, NoId),
       Todo(3, "U", "backlog", "", 0, 0, FALSE, NoDate, NoDate, NoId),
       Todo(4, "D", "backlog", "Work", 1, 0, FALSE, NoDate, <<2026, 2, 1>>, NoId),
       Todo(5, "R", "backlog", "Personal", 1, 0, FALSE, NoDate, NoDate, NoId) >>

(* The group orders a load may find: none saved yet (part_002:168-170,
   App.tsx:86), or a saved list; the last one was saved by a rename of a
   listed group to "Work" (App.tsx:400, :409). *)
SavedGroupOrders ==
    { <<>>, <<"Work", "Personal">>, <<"Personal", "Ungrouped", "Work">>,
      <<"Work", "Personal", "Work">> }

(* The names a group header may be renamed to. *)
NewNames == {"Home", "Personal", "Ungrouped", " "}

InitGroup ==
    /\ repo = tableOf(GroupTodos)
    /\ todos \in fetchTodos(repo)
    /\ calls = <<>>
    /\ today = <<2026, 2, 7>>
    /\ tz = UTC
    /\ ops = 0
    /\ last = [op |-> "init", call |-> NoCall]
    /\ groupRepo \in SavedGroupOrders
    /\ groupOrder = groupRepo
    /\ shown = NoView
    /\ loaded

(* Group moves and renames one after the other; each persistence call
   resolves or rejects. *)
NextGroup ==
    \/ \E dragGroup, hoverGroup \in renderedGroups(todos), insertAfter \in BOOLEAN :
         Idle /\ ops < MaxGroupOps /\ HandleMoveGroup(dragGroup, hoverGroup, insertAfter)
    \/ \E oldName \in renderedGroups(todos), newName \in NewNames :
         Idle /\ ops < MaxGroupOps /\ HandleRenameGroup(oldName, newName)
    \/ \E i \in 1..Len(calls) : MoveGroupOk(i)
    \/ \E i \in 1..Len(calls) : MoveGroupFail(i)
    \/ \E i \in 1..Len(calls) : RenameUpdateOk(i)
    \/ \E i \in 1..Len(calls) : RenameUpdateFail(i)

SpecGroup == InitGroup /\ [][NextGroup]_vars

(* Item moves, group moves and renames one after the other, the calls the
   handlers ignore among them; every persistence call resolves. *)
NextIgnored ==
    \/ \E dragId, hoverId \in 1..MaxTodos :
         Idle /\ ops < MaxIgnoredOps /\ HandleMove(dragId, hoverId)
    \/ \E dragGroup, hoverGroup \in renderedGroups(todos), insertAfter \in BOOLEAN :
         Idle /\ ops < MaxIgnoredOps /\ HandleMoveGroup(dragGroup, hoverGroup, insertAfter)
    \/ \E oldName \in renderedGroups(todos), newName \in NewNames :
         Idle /\ ops < MaxIgnoredOps /\ HandleRenameGroup(oldName, newName)
    \/ \E i \in 1..Len(calls) : MoveUpdateOk(i)
    \/ \E i \in 1..Len(calls) : MoveGroupOk(i)
    \/ \E i \in 1..Len(calls) : RenameUpdateOk(i)

(* The todos as an earlier session left them that dropped P on A: P is in
   Work with A's order. *)
GroupTodosAfterMove == moveUpdated(GroupTodos, 2, 1, "Personal", "Work")

InitIgnored ==
    /\ repo \in { tableOf(GroupTodos), tableOf(GroupTodosAfterMove) }
    /\ todos \in fetchTodos(repo)
    /\ calls = <<>>
    /\ today = <<2026, 2, 7>>
    /\ tz = UTC
    /\ ops = 0
    /\ last = [op |-> "init", call |-> NoCall]
    /\ groupRepo \in SavedGroupOrders
    /\ groupOrder = groupRepo
    /\ shown = NoView
    /\ loaded

SpecIgnored == InitIgnored /\ [][NextIgnored]_vars

(* A todo as the edit form leaves it once a due date, the star and a
   priority are set (TodoItem.tsx:49-57, 103-104). *)
scheduled(todo, dueDate, starred, priority) ==
    [todo EXCEPT !.dueDate = dueDate, !.starred = starred, !.priority = priority]

(* Something in each bucket of Today: two starred items of equal priority in
   Work, a scheduled item, an item without a date and one completed today. *)
ViewTodosFull ==
    << scheduled(Todo(1, "A", "today", "Work", 0, 0, FALSE, NoDate, NoDate, NoId),
                 <<2026, 2, 7>>, TRUE, "!"),
       scheduled(Todo(2, "B", "today", "Work", 1, 0, FALSE, NoDate, NoDate, NoId),
                 <<2026, 2, 1>>, TRUE, "!"),
       scheduled(Todo(3, "S", "today", "Home", 0, 0, FALSE, NoDate, NoDate, NoId),
                 <<2026, 2, 7>>, FALSE, "!!"),
       Todo(4, "N", "today", "Home", 1, 0, FALSE, NoDate, NoDate, NoId),
       Todo(5, "C", "today", "Work", 2, 0, TRUE, <<2026, 2, 7>>, NoDate, NoId) >>

(* Nothing for Today: a deleted item that is due, one due later, one
   completed the day before, and one deleted more than thirty days ago. *)
ViewTodosNone ==
    << scheduled(Todo(1, "A", "today", "Work", 0, 0, FALSE, NoDate, <<2026, 2, 5>>, NoId),
                 <<2026, 2, 7>>, TRUE, "!"),
       scheduled(Todo(2, "F", "today", "Work", 1, 0, FALSE, NoDate, NoDate, NoId),
                 <<2026, 3, 1>>, FALSE, ""),
       Todo(3, "O", "today", "Home", 0, 0, TRUE, <<2026, 2, 6>>, NoDate, NoId),
       Todo(4, "P", "today", "Home", 1, 0, TRUE, <<2026, 2, 6>>, NoDate, NoId),
       Todo(5, "X", "today", "Work", 2, 0, FALSE, NoDate, <<2026, 1, 1>>, NoId) >>

(* More undated items than Next Up shows - one starred, one with a priority,
   two plain ones - and a scheduled item without a group. *)
ViewTodosUndated ==
    << scheduled(Todo(1, "L", "today", "Work", 0, 0, FALSE, NoDate, NoDate, NoId),
                 NoDate, TRUE, ""),
       scheduled(Todo(2, "M", "today", "Work", 1, 0, FALSE, NoDate, NoDate, NoId),
                 NoDate, FALSE, "!!!"),
       Todo(3, "N", "today", "Work", 2, 0, FALSE, NoDate, NoDate, NoId),
       Todo(4, "O", "today", "Work", 3, 0, FALSE, NoDate, NoDate, NoId),
       scheduled(Todo(5, "S", "today", "", 0, 0, FALSE, NoDate, NoDate, NoId),
                 <<2026, 2, 3>>, FALSE, "") >>

(* Saved group orders: none, one listing every group, and ones that leave
   Work out. *)
ViewGroupOrders ==
    { <<>>, <<"Home", "Work", "Ungrouped">>, <<"Ungrouped", "Home">> }

Views == {"today", "backlog", "recentlyDeleted"}

InitView ==
    /\ repo \in { tableOf(ViewTodosFull), tableOf(ViewTodosNone), tableOf(ViewTodosUndated) }
    /\ todos \in fetchTodos(repo)
    /\ calls = <<>>
    /\ today = <<2026, 2, 7>>
    /\ tz = UTC
    /\ ops = 0
    /\ last = [op |-> "init", call |-> NoCall]
    /\ groupRepo \in ViewGroupOrders
    /\ groupOrder = groupRepo
    /\ shown = NoView
    /\ loaded

(* The list rendered between moves whose updates all succeed.  The todos
   and the group order change in the handlers only, so the renders while a
   batch is in flight show what the render after it shows. *)
NextView ==
    \/ \E view \in Views : Idle /\ Render(view)
    \/ \E dragId, hoverId \in 1..MaxTodos :
         Idle /\ ops < MaxViewMoves /\ HandleMove(dragId, hoverId)
    \/ \E i \in 1..Len(calls) : MoveUpdateOk(i)

SpecView == InitView /\ [][NextView]_vars

(* The texts typed into the form's group field. *)
FormGroups == {"Work", "Errands", "Ungrouped"}

(* Toggles, edits, deletes and adds one after the other; any persistence call
   may reject. *)
Init ==
    /\ repo = tableOf(ToggleTodos(7))
    /\ todos \in fetchTodos(repo)
    /\ calls = <<>>
    /\ today = <<2026, 2, 7>>
    /\ tz = UTC
    /\ ops = 0
    /\ last = [op |-> "init", call |-> NoCall]
    /\ groupRepo = <<"Work", "Home">>
    /\ groupOrder = groupRepo
    /\ shown = NoView
    /\ loaded

Next ==
    \/ \E id \in 1..MaxTodos : Idle /\ ops < MaxOps /\ HandleToggle(id)
    \/ \E id \in 1..MaxTodos, flipCompleted, flipStarred \in BOOLEAN, group \in FormGroups :
         Idle /\ ops < MaxOps /\ HandleUpdate(id, flipCompleted, flipStarred, group)
    \/ \E id \in 1..MaxTodos : Idle /\ ops < MaxOps /\ HandleDelete(id)
    \/ \E category \in {"today", "backlog"} : Idle /\ ops < MaxOps /\ HandleAdd("N", category)
    \/ \E i \in 1..Len(calls), echoed \in BOOLEAN : AddOk(i, echoed)
    \/ \E i \in 1..Len(calls) : AddFetchOk(i)
    \/ \E i \in 1..Len(calls) : AddFail(i)
    \/ \E i \in 1..Len(calls) : ToggleUpdateOk(i)
    \/ \E i \in 1..Len(calls) : ToggleAddOk(i)
    \/ \E i \in 1..Len(calls) : ToggleFetchOk(i)
    \/ \E i \in 1..Len(calls) : ToggleSoftDeleteOk(i)
    \/ \E i \in 1..Len(calls) : ToggleFail(i)
    \/ \E i \in 1..Len(calls) : UpdateOk(i)
    \/ \E i \in 1..Len(calls) : UpdateFail(i)
    \/ \E i \in 1..Len(calls) : DeleteOk(i)
    \/ \E i \in 1..Len(calls) : DeleteFail(i)

Spec == Init /\ [][Next]_vars

----------------------------------------------------------------------------
(* Properties of handleMove.                                               *)

(* The live todos of the (category, display group) bucket of t, in array order. *)
bucketOf(ts, t) ==
    SelectSeq(ts, LAMBDA u : /\ u.category = t.category
                             /\ displayGroup(u.group) = displayGroup(t.group)
                             /\ u.deletedAt = NoDate)

(* The live todos of every bucket carry the orders 0..n-1. *)
Dense(ts) ==
    \A i \in DOMAIN ts :
        ts[i].deletedAt = NoDate =>
            LET b == bucketOf(ts, ts[i])
            IN  { b[j].order : j \in DOMAIN b } = 0..(Len(b) - 1)

(* The move a "handleMove" step made: what it was called on, and its branch. *)
movedFrom == last.call.snapshot
movedDrag == find(movedFrom, last.call.id)
movedHover == last.call.todo
movedWithin ==
    /\ last.op = "handleMove"
    /\ movedDrag.category = movedHover.category
    /\ displayGroup(movedDrag.group) = displayGroup(movedHover.group)
movedAcross == last.op = "handleMove" /\ ~movedWithin

(* C1: starting from dense buckets, after any sequence of handleMove calls
   the live items of every (category, group) bucket have the orders 0..n-1,
   without gaps or duplicates. *)
C1_MovesKeepDense == Dense(todos)

(* C3: in a cross-bucket move onto the item at index k of the target
   bucket's order-sorted sequence, every item of the target bucket with
   order >= k, the target included, has its order raised by exactly 1, and
   every item with order < k keeps its order. *)
C3_TargetShiftedByOne ==
    movedAcross =>
        LET target == sortByOrder(bucketOf(movedFrom, movedHover))
            k == findIndex(target, movedHover.id)
        IN  \A i \in DOMAIN target :
                find(todos, target[i].id).order =
                    IF target[i].order >= k THEN target[i].order + 1 ELSE target[i].order

(* C4: in a within-bucket move the dragged item is taken out of the bucket's
   order-sorted sequence and put back at the index the target held, and every
   item of the bucket then has its index in that sequence as its order. *)
C4_ReorderedByIndex ==
    movedWithin =>
        LET before == sortByOrder(bucketOf(movedFrom, movedDrag))
            dragIdx == findIndex(before, movedDrag.id)
            hoverIdx == findIndex(before, movedHover.id)
            after == spliceIn(spliceOut(before, dragIdx), hoverIdx, movedDrag)
        IN  \A i \in DOMAIN after : find(todos, after[i].id).order = i - 1

(* C5: the ids batchUpdateOrder issues an updateTodo for are exactly the ids
   whose order, group or category differs between the pre-move snapshot and
   the in-memory state after the move. *)
C5_BatchIsTheDiff ==
    last.op = "handleMove" =>
        { p.id : p \in last.call.pending } =
            { t.id : t \in { u \in Range(todos) :
                LET prev == find(movedFrom, u.id)
                IN  \/ prev.order # u.order
                    \/ prev.group # u.group
                    \/ prev.category # u.category } }

(* C6: when exactly one updateTodo of a move's batch rejected and the others
   succeeded, the other items' new values are in the repository and in
   memory, and the failed item's in-memory order is back at its value from
   before the move. *)
C6_FailedItemReverted ==
    (last.op = "moveSettled" /\ Cardinality(last.call.failed) = 1) =>
        LET sent == batchPayloads(movedFrom, moveUpdated(movedFrom, movedDrag.id,
                        movedHover.id, displayGroup(movedDrag.group),
                        displayGroup(movedHover.group)))
        IN  Cardinality(sent) > 1 => \A p \in sent :
                IF p.id \in last.call.failed
                THEN find(todos, p.id).order = find(movedFrom, p.id).order
                ELSE /\ find(todos, p.id).order = p.order
                     /\ find(todos, p.id).group = p.group
                     /\ mapRow(repo[p.id]).order = p.order
                     /\ mapRow(repo[p.id]).group = p.group

----------------------------------------------------------------------------
(* Properties of handleToggle and handleUpdate.                            *)

(* The live todos of ts that name `id` as their recurring parent. *)
liveChildren(ts, id) ==
    { t \in Range(ts) : t.recurringParentId = id /\ t.deletedAt = NoDate }

liveChildRows(rows, id) ==
    { r \in Range(rows) : r.recurring_parent_id = id /\ r.deleted_at = NullDate }

(* C2: toggles of a recurring item made one after the other, every
   persistence call succeeding: at every point at most one live todo names
   the item as its recurring parent, in memory and in the repository. *)
C2_AtMostOneLiveChild ==
    \A id \in 1..Len(repo) :
        /\ Cardinality(liveChildren(todos, id)) <= 1
        /\ Cardinality(liveChildRows(repo, id)) <= 1

(* A parent completed, un-completed and completed again: its first child is
   soft-deleted and its second is live. *)
C2_Witness ==
    \E id \in 1..Len(repo) :
        /\ Cardinality(liveChildren(todos, id)) = 1
        /\ \E t \in Range(todos) : t.recurringParentId = id /\ t.deletedAt # NoDate

(* The calendar day after a date. *)
nextDay(date) ==
    IF date[3] < daysInMonth(date[1], date[2]) THEN <<date[1], date[2], date[3] + 1>>
    ELSE IF date[2] < 12 THEN <<date[1], date[2] + 1, 1>>
    ELSE <<date[1] + 1, 1, 1>>

(* A date plus n calendar days. *)
RECURSIVE plusDays(_, _)
plusDays(date, n) == IF n = 0 THEN date ELSE plusDays(nextDay(date), n - 1)

(* The largest of a non-empty set of numbers. *)
maxOf(ns) == CHOOSE m \in ns : \A n \in ns : n <= m

(* C9: completing a recurring item on date D inserts exactly one todo: a copy
   of the parent's summary, description, category, repeatDays, group and
   priority, not completed, not starred, linked to the parent, due D plus
   repeatDays calendar days, ordered 1 behind the largest order among the
   live items of the parent's bucket. *)
C9_SpawnedTodo ==
    last.op = "toggleAddOk" =>
        LET parent == last.call.todo
            D == last.call.updates.completedAt
            bucket == bucketOf(last.call.snapshot, parent)
            child == mapRow(repo[Len(repo)])
        IN  /\ Len(repo) = Len(last.call.snapshot) + 1
            /\ child.summary = parent.summary
            /\ child.description = parent.description
            /\ child.category = parent.category
            /\ child.repeatDays = parent.repeatDays
            /\ child.group = parent.group
            /\ child.priority = parent.priority
            /\ child.completed = FALSE
            /\ child.starred = FALSE
            /\ child.recurringParentId = parent.id
            /\ child.deletedAt = NoDate
            /\ child.order = 1 + maxOf({ bucket[i].order : i \in DOMAIN bucket })
            /\ child.dueDate = plusDays(D, parent.repeatDays)

(* C10: when handleToggle un-completes a recurring parent that has a live
   child, the handler goes on to soft-delete it; the step that does so marks
   exactly that child, the one live todo naming the parent, in the repository
   and in memory; and no step of a toggle changes any other deletedAt. *)
C10_RetractDeletesTheChild ==
    [][ LET parent == last'.call.id
            kids == liveChildren(todos, parent)
            changed == { i \in DOMAIN todos : todos'[i].deletedAt # todos[i].deletedAt }
            changedRows == { i \in DOMAIN repo : repo'[i].deleted_at # repo[i].deleted_at }
        IN  /\ (/\ last'.op = "toggleUpdateOk"
                /\ ~last'.call.updates.completed
                /\ last'.call.todo.repeatDays > 0
                /\ kids # {})
                    => last'.call.pc = "softDeleteTodo"
            /\ last'.op = "toggleSoftDeleteOk" =>
                   /\ Cardinality(kids) = 1
                   /\ { todos[i].id : i \in changed } = { t.id : t \in kids }
                   /\ { repo[i].id : i \in changedRows } = { t.id : t \in kids }
                   /\ \A t \in kids : /\ find(todos', t.id).deletedAt # NoDate
                                      /\ repo'[t.id].deleted_at # NullDate
            /\ (last'.call.op = "toggle" /\ last'.op \notin {"toggleSoftDeleteOk", "toggleFetchOk"})
                   => changed = {} /\ changedRows = {}
      ]_vars

(* A retraction has happened: the child of the un-completed parent is
   soft-deleted in memory and in the repository. *)
C10_Witness ==
    /\ last.op = "toggleSoftDeleteOk"
    /\ \E t \in Range(todos) :
         /\ t.recurringParentId = last.call.id
         /\ t.deletedAt # NoDate
         /\ repo[t.id].deleted_at # NullDate

(* C7: in every in-memory state, every todo has completedAt set if and only
   if it is completed. *)
C7_CompletedAtIffCompleted ==
    \A i \in DOMAIN todos : (todos[i].completedAt # NoDate) <=> todos[i].completed

----------------------------------------------------------------------------
(* Properties of the group-name mapping.                                   *)

(* The names the round trip is tried on. *)
GroupNames == {"", UNGROUPED, "Work", "Home"}

(* C8 as stated: for every string d, the empty string included,
   displayGroup(storedGroup(d)) = d. *)
C8_RoundTripEveryString ==
    \A d \in GroupNames \cup { displayGroup(t.group) : t \in Range(todos) } :
        displayGroup(storedGroup(d)) = d

(* C8, amended: for every non-empty string d, and so for every display name
   a todo is shown under, displayGroup(storedGroup(d)) = d; and
   displayGroup("") = "Ungrouped". *)
C8_RoundTripNonEmpty ==
    /\ \A d \in GroupNames \cup { displayGroup(t.group) : t \in Range(todos) } :
           d # "" => displayGroup(storedGroup(d)) = d
    /\ displayGroup("") = "Ungrouped"

(* A move has stored the group of an item dropped on an ungrouped one: the
   display name "Ungrouped" went through storedGroup and is displayed again. *)
C8_Witness ==
    /\ movedAcross
    /\ displayGroup(movedHover.group) = "Ungrouped"
    /\ find(todos, last.call.id).group = ""
    /\ displayGroup(find(todos, last.call.id).group) = "Ungrouped"

----------------------------------------------------------------------------
(* Properties of handleMoveGroup and handleRenameGroup.                    *)

noDuplicates(s) == \A i, j \in DOMAIN s : s[i] = s[j] => i = j

without(s, x) == SelectSeq(s, LAMBDA y : y # x)

(* C11: handleMoveGroup with dragGroup # hoverGroup on a group order without
   duplicates sets a list that holds every previous name, dragGroup and
   hoverGroup exactly once (names not yet listed are appended before the
   move), with dragGroup immediately before hoverGroup when insertAfter is
   false and immediately after it when insertAfter is true, all other names
   keeping their relative order; ["Work","Personal"] with Personal moved
   before Work gives ["Personal","Work"]. *)
C11_GroupMovedNextToTarget ==
    ( /\ last.op = "handleMoveGroup"
      /\ last.call.names[1] # last.call.names[2]
      /\ noDuplicates(last.call.prevOrder) ) =>
        LET prev == last.call.prevOrder
            dragGroup == last.call.names[1]
            hoverGroup == last.call.names[2]
        IN  /\ noDuplicates(groupOrder)
            /\ Range(groupOrder) = Range(prev) \cup {dragGroup, hoverGroup}
            /\ indexOf(groupOrder, dragGroup) =
                   indexOf(groupOrder, hoverGroup) + (IF last.call.insertAfter THEN 1 ELSE -1)
            /\ without(groupOrder, dragGroup) =
                   without(prev, dragGroup)
                       \o (IF includes(prev, hoverGroup) THEN <<>> ELSE <<hoverGroup>>)
            /\ (prev = <<"Work", "Personal">> /\ dragGroup = "Personal"
                    /\ hoverGroup = "Work" /\ ~last.call.insertAfter)
                   => groupOrder = <<"Personal", "Work">>

(* Personal was dragged from behind Work to before it. *)
C11_Witness ==
    /\ last.op = "handleMoveGroup"
    /\ last.call.prevOrder = <<"Work", "Personal">>
    /\ last.call.names = <<"Personal", "Work">>
    /\ ~last.call.insertAfter
    /\ groupOrder = <<"Personal", "Work">>

(* C16: after handleRenameGroup(oldName, newName) with oldName # newName and
   newName not blank, every live item displayed under oldName has the group
   storedGroup(newName), every item displayed under another name keeps its
   group, and the group order has its length, newName where oldName was and
   every other entry as before. *)
C16_RenamedInPlace ==
    ( /\ last.call.op = "rename"
      /\ last.call.failed = {}
      /\ last.call.names[1] # last.call.names[2]
      /\ trim(last.call.names[2]) # "" ) =>
        LET before == last.call.snapshot
            prev == last.call.prevOrder
            oldName == last.call.names[1]
            newName == last.call.names[2]
        IN  /\ Len(todos) = Len(before)
            /\ \A i \in DOMAIN before :
                 /\ todos[i].id = before[i].id
                 /\ (before[i].deletedAt = NoDate /\ displayGroup(before[i].group) = oldName)
                        => todos[i].group = storedGroup(newName)
                 /\ displayGroup(before[i].group) # oldName
                        => todos[i].group = before[i].group
            /\ Len(groupOrder) = Len(prev)
            /\ \A i \in DOMAIN prev :
                 groupOrder[i] = IF prev[i] = oldName THEN newName ELSE prev[i]

(* Work, listed in the group order, was renamed to Home and every call of
   the batch resolved. *)
C16_Witness ==
    /\ last.op = "renameSettled"
    /\ last.call.failed = {}
    /\ last.call.names = <<"Work", "Home">>
    /\ includes(last.call.prevOrder, "Work")
    /\ includes(groupOrder, "Home")
    /\ \E t \in Range(todos) : t.group = "Home"

(* C17: when a persistence call of handleRenameGroup rejected, and no other
   mutation was applied in the meantime, the in-memory todos and the
   in-memory group order are what they were before the rename. *)
C17_RenameRolledBack ==
    (last.call.op = "rename" /\ last.call.failed # {}) =>
        /\ todos = last.call.snapshot
        /\ groupOrder = last.call.prevOrder

(* A rename that had changed both the todos and the group order was
   rejected. *)
C17_Witness ==
    /\ last.op = "renameRejected"
    /\ renameTodos(last.call.snapshot, last.call.names[1], last.call.names[2])
           # last.call.snapshot
    /\ last.call.order # last.call.prevOrder

----------------------------------------------------------------------------
(* Properties of handleAdd, handleUpdate and handleDelete.                 *)

(* C12: starting from dense buckets, every mutation other than a move
   (handleAdd, handleDelete, handleToggle with its spawn or retraction,
   handleUpdate changing a group) leaves, once it has settled, the live items
   of every (category, group) bucket with the orders 0..n-1. *)
C12_MutationsKeepDense == Idle => Dense(todos)

(* C18: when updateTodo rejected during handleUpdate, the fields the update
   had changed in memory are back at the values they had before it. *)
C18_UpdateRolledBack ==
    last.op = "updateFail" => find(todos, last.call.id) = last.call.todo

(* The ids of the rows of the table. *)
rowIds(rows) == { rows[i].id : i \in DOMAIN rows }

(* C19: handleAdd never puts into memory a todo whose id the repository did
   not return: every in-memory id is the id of a row; an insert that returned
   its record appends exactly that record; an insert that returned none
   leaves the array to the refetch, which replaces it with a fetchTodos
   result; a rejected insert leaves the array as it was. *)
C19_AddAdoptsStoredRecord ==
    /\ [](Ids(todos) \subseteq rowIds(repo))
    /\ [][ /\ last'.op = "handleAdd" => todos' = todos
           /\ (last'.op = "addOk" /\ last'.call.pc = "done") =>
                  /\ Len(repo') = Len(repo) + 1
                  /\ todos' = Append(todos, mapRow(repo'[Len(repo')]))
           /\ (last'.op = "addOk" /\ last'.call.pc = "fetchTodos") => todos' = todos
           /\ last'.op = "addFetchOk" =>
                  /\ todos' \in fetchTodos(repo)
                  /\ last'.call.id \in Ids(todos')
           /\ last'.op = "addFail" => todos' = todos
         ]_vars

(* An insert returned its record, which is now the last todo in memory. *)
C19_Witness ==
    /\ last.op = "addOk"
    /\ last.call.pc = "done"
    /\ todos[Len(todos)].id = last.call.id
    /\ todos[Len(todos)].summary = "N"
    /\ last.call.id \notin Ids(last.call.snapshot)

(* C20: in every state, each display group that has a live todo is listed in
   the in-memory group order (a group is added to the list when it is
   created). *)
C20_GroupsAreListed == renderedGroups(todos) \subseteq Range(groupOrder)

----------------------------------------------------------------------------
(* The views.                                                              *)

(* x <= y on group ranks: +Infinity is the largest, and equal to itself. *)
rankLeq(x, y) ==
    \/ y.kind = "infinity"
    \/ x.kind = "finite" /\ y.kind = "finite" /\ x.n <= y.n

(* A bucket in the order the specification gives: priority descending, then
   group rank ascending, then order ascending. *)
inPriorityGroupOrder(bucket, order) ==
    \A i, j \in DOMAIN bucket :
        i < j =>
            LET a == bucket[i]
                b == bucket[j]
                ra == groupRank(displayGroup(a.group), order)
                rb == groupRank(displayGroup(b.group), order)
            IN  /\ PRIORITY_VALUES[a.priority] >= PRIORITY_VALUES[b.priority]
                /\ PRIORITY_VALUES[a.priority] = PRIORITY_VALUES[b.priority] =>
                       /\ rankLeq(ra, rb)
                       /\ ra = rb => a.order <= b.order

(* C13: in the Starred & due and the Scheduled bucket of a rendered Today
   view, an item placed before another has a priority at least as high;
   with equal priorities a group rank at most as large; and with equal
   ranks too (both groups absent from the group order included) an order
   at most as large. *)
C13_BucketsInPriorityGroupOrder ==
    shown.view = "today" =>
        /\ inPriorityGroupOrder(shown.starredDue, groupOrder)
        /\ inPriorityGroupOrder(shown.scheduledDue, groupOrder)

(* The ids of a bucket. *)
bucketIds(bucket) == { bucket[i].id : i \in DOMAIN bucket }

(* The four buckets of a rendered Today view. *)
bucketsShown == <<shown.starredDue, shown.scheduledDue, shown.nextUp, shown.completedToday>>

(* C14: the four buckets of a rendered Today view are pairwise disjoint,
   hold no soft-deleted item, and hold only items meeting their predicate
   (starred and due: incomplete, starred, a due date that is not after
   today; scheduled: the same but not starred; next up: incomplete without
   a due date; completed today: completed, with completedAt today); the
   empty state is shown exactly when all four are empty. *)
C14_BucketsDisjointAndMeetPredicates ==
    shown.view = "today" =>
        /\ \A m, n \in 1..4 : m # n => bucketIds(bucketsShown[m]) \cap bucketIds(bucketsShown[n]) = {}
        /\ \A m \in 1..4 : \A t \in Range(bucketsShown[m]) : t.deletedAt = NoDate
        /\ \A t \in Range(shown.starredDue) :
             ~t.completed /\ t.starred /\ t.dueDate # NoDate /\ dateLeq(t.dueDate, today)
        /\ \A t \in Range(shown.scheduledDue) :
             ~t.completed /\ ~t.starred /\ t.dueDate # NoDate /\ dateLeq(t.dueDate, today)
        /\ \A t \in Range(shown.nextUp) : ~t.completed /\ t.dueDate = NoDate
        /\ \A t \in Range(shown.completedToday) : t.completed /\ t.completedAt = today
        /\ shown.isEmpty <=> \A m \in 1..4 : bucketsShown[m] = <<>>

(* Today rendered with something in each of its four buckets. *)
C14_Witness ==
    /\ last.op = "render"
    /\ shown.view = "today"
    /\ \A m \in 1..4 : bucketsShown[m] # <<>>
    /\ ~shown.isEmpty

(* C15: computing a view leaves the todos array (its records and their
   arrangement) and the group order as they were, and computing the same
   view again, on the todos, group order and date the first computation
   left, gives the output the first gave. *)
C15_ProjectionsArePure ==
    [][ last'.op = "render" =>
          /\ todos' = todos
          /\ groupOrder' = groupOrder
          /\ shown' = project(last'.call.names[1], todos', groupOrder', today')
      ]_vars

(* The backlog rendered from a todos array that is not in the order of its
   items, so that its groups had to be sorted. *)
C15_Witness ==
    /\ last.op = "render"
    /\ shown.view = "backlog"
    /\ shown.activeKeys # <<>>
    /\ \E i, j \in DOMAIN todos :
         i < j /\ todos[i].group = todos[j].group /\ todos[i].order > todos[j].order

----------------------------------------------------------------------------
(* The stored form of "no group".                                          *)

(* C21: in every state no todo, in memory or in the repository, has the
   display label "Ungrouped" as its stored group: every write path stores
   the absence of a group as the empty string. *)
C21_NoStoredUngroupedLabel ==
    /\ \A t \in Range(todos) : t.group # UNGROUPED
    /\ \A r \in Range(repo) : r.group_name # UNGROUPED

----------------------------------------------------------------------------
(* Calls the handlers ignore.                                              *)

(* C22: a handleToggle, handleMove (dragged or target id), handleDelete or
   handleUpdate call that names a todo id which is not in memory is a no-op:
   the todos in memory stay as they are and no persistence call is issued. *)
C22_UnknownIdIsNoOp ==
    [][ ( /\ last'.op \in {"handleToggle", "handleMove", "handleDelete", "handleUpdate"}
          /\ last'.call.id \notin Ids(todos)
               \/ (last'.op = "handleMove" /\ last'.call.todo.id \notin Ids(todos)) )
        => todos' = todos /\ calls' = calls
      ]_vars

(* C23: handleRenameGroup with oldName = newName or a blank newName,
   handleMoveGroup with dragGroup = hoverGroup and a move of an item onto
   itself leave the todos and the group order as they are and issue no
   persistence call, whatever the order values of the todos are. *)
C23_InvalidCallsAreNoOps ==
    [][ ( \/ /\ last'.op = "handleRenameGroup"
             /\ last'.call.names[1] = last'.call.names[2] \/ trim(last'.call.names[2]) = ""
          \/ /\ last'.op = "handleMoveGroup"
             /\ last'.call.names[1] = last'.call.names[2]
          \/ /\ last'.op = "handleMove"
             /\ last'.call.id = last'.call.todo.id )
        => todos' = todos /\ groupOrder' = groupOrder /\ calls' = calls /\ repo' = repo
      ]_vars

(* An item was dropped on itself while two live items of its group had the
   same order. *)
C23_Witness ==
    /\ last.op = "handleMove"
    /\ last.call.id = last.call.todo.id
    /\ \E t \in Range(live(todos)) :
         /\ t.id # last.call.id
         /\ t.category = last.call.todo.category
         /\ t.group = last.call.todo.group
         /\ t.order = last.call.todo.order

----------------------------------------------------------------------------
(* Recurrence under failures and form edits.                               *)

(* C24: in every state reached by toggles, form edits of the completed box
   and deletes, any persistence call being free to fail, each recurring
   parent has at most one live child in the repository and at most one in
   memory. *)
C24_NeverTwoLiveChildren ==
    \A parent \in rowIds(repo) \cup Ids(todos) :
        /\ Cardinality(liveChildRows(repo, parent)) <= 1
        /\ Cardinality(liveChildren(todos, parent)) <= 1

----------------------------------------------------------------------------
(* Moves across buckets.                                                   *)

(* A "handleMove" step that took an item to another bucket. *)
movedToOtherBucket == movedAcross /\ last.call.pc = "batch"

(* Whether a todo is a live member of the bucket of another. *)
inBucketOf(t, u) ==
    /\ t.deletedAt = NoDate
    /\ t.category = u.category
    /\ displayGroup(t.group) = displayGroup(u.group)

(* The three effects of a move across buckets on the todos in memory. *)
movedAsSpecified ==
    LET target == sortByOrder(bucketOf(movedFrom, movedHover))
        k == findIndex(target, movedHover.id)
        source == sortByOrder(SelectSeq(bucketOf(movedFrom, movedDrag),
                                        LAMBDA t : t.id # movedDrag.id))
        dragged == find(todos, movedDrag.id)
    IN  /\ dragged.group = storedGroup(displayGroup(movedHover.group))
        /\ dragged.category = movedHover.category
        /\ dragged.order = k
        /\ \A j \in DOMAIN source : find(todos, source[j].id).order = j - 1
        /\ \A j \in DOMAIN movedFrom :
             (~inBucketOf(movedFrom[j], movedDrag) /\ ~inBucketOf(movedFrom[j], movedHover))
                 => todos[j] = movedFrom[j]

(* C25: after a handleMove across buckets the dragged item has the stored
   form of the target's display group, the target's category and the
   target's index in the target bucket as its order; the items left in the
   source bucket carry 0..n-1 in their previous relative order; and every
   todo that is in neither bucket is as it was. *)
C25_MovedAcrossBuckets == movedToOtherBucket => movedAsSpecified

(* The same on moves where no soft-deleted todo has the category and group
   of the source or the target. *)
C25_MovedAcrossLiveBuckets ==
    ( /\ movedToOtherBucket
      /\ \A t \in Range(movedFrom) :
           t.deletedAt # NoDate =>
               /\ ~inBucketOf([t EXCEPT !.deletedAt = NoDate], movedDrag)
               /\ ~inBucketOf([t EXCEPT !.deletedAt = NoDate], movedHover) )
    => movedAsSpecified

(* A move whose updates have all been answered: the last of its batch has
   resolved, or it had nothing to send. *)
moveSettled ==
    \/ last.op = "moveSettled"
    \/ last.op = "handleMove" /\ last.call.pc = "batch" /\ last.call.pending = {}

(* C26: once the updates of a handleMove across buckets that changed the
   dragged item's category have all succeeded, the repository's category,
   group and order of the dragged item are those it has in memory. *)
C26_MovedItemPersisted ==
    ( /\ moveSettled
      /\ last.call.op = "move"
      /\ last.call.id # last.call.todo.id
      /\ movedDrag.category # movedHover.category ) =>
        \A r \in Range(repo) :
            r.id = movedDrag.id =>
                /\ mapRow(r).category = find(todos, r.id).category
                /\ mapRow(r).group = find(todos, r.id).group
                /\ mapRow(r).order = find(todos, r.id).order

----------------------------------------------------------------------------
(* Soft-deleted todos and the bucket computations.                         *)

(* C27: soft-deleted todos take no part in the bucket computations: a
   handleMove leaves the order of every soft-deleted todo as it was and
   gives each live todo the order it would give it were the soft-deleted
   todos not in the array, and handleAdd gives a new todo the order it would
   give it were they not there. *)
C27_DeletedOutsideBuckets ==
    /\ (last.op = "handleMove" /\ last.call.pc = "batch") =>
           /\ \A j \in DOMAIN movedFrom :
                movedFrom[j].deletedAt # NoDate => todos[j].order = movedFrom[j].order
           /\ live(todos) = moveUpdated(live(movedFrom), movedDrag.id, movedHover.id,
                                        displayGroup(movedDrag.group),
                                        displayGroup(movedHover.group))
    /\ last.op = "handleAdd" =>
           addDraft(last.call.snapshot, last.call.names[1], last.call.names[2]).order
               = addDraft(live(last.call.snapshot), last.call.names[1], last.call.names[2]).order

----------------------------------------------------------------------------
(* Next Up and the backlog.                                                *)

(* a comes strictly before b in the ordering of Next Up: starred first, then
   priority descending, then group rank ascending, then order ascending. *)
precedes(a, b, order) ==
    LET pa == PRIORITY_VALUES[a.priority]
        pb == PRIORITY_VALUES[b.priority]
        ra == groupRank(displayGroup(a.group), order)
        rb == groupRank(displayGroup(b.group), order)
    IN  \/ a.starred /\ ~b.starred
        \/ /\ a.starred = b.starred
           /\ \/ pa > pb
              \/ pa = pb /\ rankLeq(ra, rb) /\ ra # rb
              \/ pa = pb /\ ra = rb /\ a.order < b.order

(* The todos Next Up chooses from. *)
undated(ts) ==
    SelectSeq(ts, LAMBDA t : ~t.completed /\ t.dueDate = NoDate /\ t.deletedAt = NoDate)

(* C28: Next Up of a freshly rendered Today view holds three (or all, if
   there are fewer) of the live, incomplete todos without a due date, in the
   ordering starred first, priority descending, group rank ascending, order
   ascending, and no todo left out precedes one that is shown. *)
C28_NextUpIsTheFirstThree ==
    (last.op = "render" /\ shown.view = "today") =>
        LET candidates == Range(undated(todos))
            included == Range(shown.nextUp)
        IN  /\ included \subseteq candidates
            /\ Len(shown.nextUp) = Cardinality(included)
            /\ Len(shown.nextUp) = IF Cardinality(candidates) < 3
                                   THEN Cardinality(candidates) ELSE 3
            /\ \A i, j \in DOMAIN shown.nextUp :
                 i < j => ~precedes(shown.nextUp[j], shown.nextUp[i], groupOrder)
            /\ \A x \in candidates \ included, y \in included : ~precedes(x, y, groupOrder)

(* How often a todo is listed in the groups of a partition. *)
timesListed(t, groups) ==
    Cardinality({ p \in { <<g, i>> : g \in DOMAIN groups, i \in 1..MaxTodos } :
                    p[2] \in DOMAIN groups[p[1]].items /\ groups[p[1]].items[p[2]] = t })

(* One partition of the backlog: its groups hold exactly the given todos,
   each once and under its display group, in ascending order; its keys are
   the names of its groups, those of the group order first and in that
   order. *)
partitionAsSpecified(keys, groups, members, order) ==
    /\ \A t \in members : timesListed(t, groups) = 1
    /\ \A g \in DOMAIN groups :
         /\ groups[g].items # <<>>
         /\ \A i \in DOMAIN groups[g].items :
              /\ groups[g].items[i] \in members
              /\ displayGroup(groups[g].items[i].group) = groups[g].name
         /\ \A i, j \in DOMAIN groups[g].items :
              i < j => groups[g].items[i].order <= groups[g].items[j].order
         /\ \A h \in DOMAIN groups : groups[h].name = groups[g].name => h = g
    /\ noDuplicates(keys)
    /\ Range(keys) = { groups[g].name : g \in DOMAIN groups }
    /\ \A i, j \in DOMAIN keys :
         i < j =>
             /\ includes(order, keys[j]) => includes(order, keys[i])
             /\ (includes(order, keys[i]) /\ includes(order, keys[j]))
                    => indexOf(order, keys[i]) < indexOf(order, keys[j])

(* C29: in a freshly rendered Backlog every live todo is listed exactly once,
   among the incomplete if it is not completed and among the completed
   otherwise, under its display group; the members of each group are in
   ascending order; the groups named in the group order come in the order of
   that list, and the groups it does not name come after them. *)
C29_BacklogPartitions ==
    (last.op = "render" /\ shown.view = "backlog") =>
        /\ partitionAsSpecified(shown.activeKeys, shown.activeGroups,
                                { t \in Range(live(todos)) : ~t.completed }, groupOrder)
        /\ partitionAsSpecified(shown.completedKeys, shown.completedGroups,
                                { t \in Range(live(todos)) : t.completed }, groupOrder)

(* The backlog rendered with a completed item, with a group the group order
   names and one it does not, and with a group whose members are not in
   ascending order in the todos array. *)
C29_Witness ==
    /\ last.op = "render"
    /\ shown.view = "backlog"
    /\ shown.completedKeys # <<>>
    /\ \E i, j \in DOMAIN shown.activeKeys :
         includes(groupOrder, shown.activeKeys[i]) /\ ~includes(groupOrder, shown.activeKeys[j])
    /\ \E i, j \in DOMAIN todos :
         /\ i < j
         /\ todos[i].deletedAt = NoDate /\ todos[j].deletedAt = NoDate
         /\ todos[i].completed = todos[j].completed
         /\ todos[i].group = todos[j].group
         /\ todos[i].order > todos[j].order

(* C30: the sequences of the Today buckets (and with them the three items of
   Next Up) depend on the todos, the group order and the date only, not on
   the arrangement of the todos array: the array as a reload would fetch it
   gives the buckets the array in memory gives. *)
C30_BucketsIndependentOfArrangement ==
    (last.op = "render" /\ shown.view = "today") =>
        \A arrangement \in fetchTodos(tableOf(todos)) :
            todayBuckets(arrangement, groupOrder, today)
                = todayBuckets(todos, groupOrder, today)

----------------------------------------------------------------------------
(* The drop after the hover.                                               *)

(* C31: when a handleMove has been applied, the next handleMove with the
   same dragged and target id (the drop that follows the hover) leaves the
   order, group and category of every todo as they are. *)
C31_DropConfirmsHover ==
    [][ ( /\ last'.op = "handleMove"
          /\ last.call.op = "move"
          /\ last.call.pc = "batch"
          /\ last'.call.id = last.call.id
          /\ last'.call.todo.id = last.call.todo.id )
        => \A i \in DOMAIN todos :
             /\ todos'[i].order = todos[i].order
             /\ todos'[i].group = todos[i].group
             /\ todos'[i].category = todos[i].category
      ]_vars

----------------------------------------------------------------------------
(* Failures and what they revert.                                          *)

(* C32: when softDeleteTodo rejects, the item's deletedAt in memory is again
   what it was just before that handleDelete was applied, and no other todo
   changes; so too when the item had been deleted by an earlier call. *)
C32_DeleteRolledBack ==
    [][ last'.op = "deleteFail" =>
          /\ Len(todos') = Len(todos)
          /\ \A i \in DOMAIN todos :
               IF todos[i].id = last'.call.id
               THEN todos'[i] = [todos[i] EXCEPT !.deletedAt = last'.call.todo.deletedAt]
               ELSE todos'[i] = todos[i]
      ]_vars


(* C33: after handleToggle on a recurring item whose completion patch
   succeeded and whose later recurrence call (addTodo, fetchTodos or
   softDeleteTodo) failed, the item's completed and completedAt in memory
   equal the values the repository holds for it. *)
recurrenceCallFailed ==
    /\ last.op = "toggleFail"
    /\ last.call.pc \in {"addTodo", "fetchTodos", "softDeleteTodo"}
    /\ last.call.id \in Ids(todos)
    /\ \E i \in DOMAIN repo : repo[i].id = last.call.id

C33_CompletionMatchesRepository ==
    recurrenceCallFailed =>
        LET inMemory == find(todos, last.call.id)
            stored == mapRow(CHOOSE r \in Range(repo) : r.id = last.call.id)
        IN  /\ inMemory.completed = stored.completed
            /\ inMemory.completedAt = stored.completedAt


(* C38: the group order never holds the same name twice: a handleMoveGroup
   or handleRenameGroup call on a duplicate-free list, a rename to a name
   already in the list included, leaves the list duplicate-free. *)
C38_GroupOrderDuplicateFree ==
    [][ ( /\ last'.op \in {"handleMoveGroup", "handleRenameGroup"}
          /\ noDuplicates(groupOrder) )
        => noDuplicates(groupOrder')
      ]_vars


(* ---- A drag of a group header: hover events in a row (App.tsx:356-381) ---- *)

MaxHovers == 2

(* Every hover event of a drag calls handleMoveGroup without awaiting it
   (DraggableGroupHeader.tsx:45-58, GroupDropZone.tsx:22-33), so the next
   event finds the previous save still in flight. *)
DragGroupOrders ==
    { <<>>, <<"Work", "Personal">>, <<"Personal", "Ungrouped", "Work">> }

DragTodos ==
    << Todo(1, "A", "backlog", "Work", 0, 0, FALSE, NoDate, NoDate, NoId),
       Todo(2, "P", "backlog", "Personal", 1, 0, FALSE, NoDate, NoDate, NoId),
       Todo(3, "U", "backlog", "", 2, 0, FALSE, NoDate, NoDate, NoId) >>

InitGroupDrag ==
    /\ repo = tableOf(DragTodos)
    /\ todos \in fetchTodos(repo)
    /\ calls = <<>>
    /\ today = <<2026, 2, 7>>
    /\ tz = UTC
    /\ ops = 0
    /\ last = [op |-> "init", call |-> NoCall]
    /\ groupRepo \in DragGroupOrders
    /\ groupOrder = groupRepo
    /\ shown = NoView
    /\ loaded

NextGroupDrag ==
    \/ \E dragGroup, hoverGroup \in renderedGroups(todos), insertAfter \in BOOLEAN :
         ops < MaxHovers /\ HandleMoveGroup(dragGroup, hoverGroup, insertAfter)
    \/ \E i \in 1..Len(calls) : MoveGroupOk(i)
    \/ \E i \in 1..Len(calls) : MoveGroupFail(i)

SpecGroupDrag == InitGroupDrag /\ [][NextGroupDrag]_vars

(* C39: handleMoveGroup is idempotent: on a duplicate-free group order, with
   dragGroup different from hoverGroup and either insertAfter value, the same
   move applied a second time right after the first leaves the list as the
   first one made it. *)
sameMoveAgain(first, second) ==
    /\ first.op = "moveGroup"
    /\ second.op = "moveGroup"
    /\ second.names = first.names
    /\ second.insertAfter = first.insertAfter
    /\ second.names[1] # second.names[2]
    /\ second.prevOrder = first.order
    /\ noDuplicates(first.prevOrder)

C39_MoveGroupIdempotent ==
    [][ ( /\ last.op = "handleMoveGroup"
          /\ last'.op = "handleMoveGroup"
          /\ sameMoveAgain(last.call, last'.call) )
        => groupOrder' = groupOrder
      ]_vars

C39_Witness ==
    /\ last.op = "handleMoveGroup"
    /\ Len(calls) = 2
    /\ sameMoveAgain(calls[1], calls[2])
    /\ calls[1].order # calls[1].prevOrder
    /\ groupOrder = calls[2].order


(* ---- Handlers started while earlier calls are in flight ---- *)

MaxOverlapOps == 2

(* addTodo, App.tsx:227-239: the insert reaches the table; the created row
   travels back to the handler. *)
AddArrives(i) ==
    /\ i \in DOMAIN calls
    /\ calls[i].op = "add"
    /\ calls[i].pc = "addTodo"
    /\ Len(repo) < MaxTodos
    /\ LET row == insertedRow(Len(repo) + 1,
                      addDraft(calls[i].snapshot, calls[i].names[1], calls[i].names[2]))
           call == [calls[i] EXCEPT !.pc = "created", !.id = row.id, !.todo = mapRow(row)]
       IN  /\ repo' = Append(repo, row)
           /\ calls' = [calls EXCEPT ![i] = call]
           /\ last' = [op |-> "addArrives", call |-> call]
    /\ UNCHANGED <<todos, today, tz, ops, groupOrder, groupRepo, shown,
                 user, loadingTodos, loads>>

(* App.tsx:241-242: the handler resumes with the created row and appends it. *)
AddResponse(i) ==
    /\ i \in DOMAIN calls
    /\ calls[i].op = "add"
    /\ calls[i].pc = "created"
    /\ todos' = addCreated(todos, calls[i].todo)
    /\ calls' = removeAt(calls, i)
    /\ last' = [op |-> "addOk", call |-> [calls[i] EXCEPT !.pc = "done"]]
    /\ UNCHANGED <<repo, today, tz, ops, groupOrder, groupRepo, shown,
                 user, loadingTodos, loads>>

(* fetchTodos, App.tsx:174: the select reads the table; the rows read travel
   back to the handler, kept in the call's snapshot. *)
ToggleFetchReads(i) ==
    /\ toggleAt(i, "fetchTodos")
    /\ \E refreshed \in fetchTodos(repo) :
         LET call == [calls[i] EXCEPT !.pc = "refreshed", !.snapshot = refreshed]
         IN  /\ calls' = [calls EXCEPT ![i] = call]
             /\ last' = [op |-> "toggleFetchReads", call |-> call]
    /\ UNCHANGED <<todos, repo, today, tz, ops, groupOrder, groupRepo, shown,
                 user, loadingTodos, loads>>

(* App.tsx:175: setTodos(refreshed). *)
ToggleFetchApplied(i) ==
    /\ toggleAt(i, "refreshed")
    /\ todos' = calls[i].snapshot
    /\ proceed(i, "done", "toggleFetchOk")
    /\ UNCHANGED <<repo, today, tz, ops, groupOrder, groupRepo, shown,
                 user, loadingTodos, loads>>

NextOverlap ==
    \/ \E id \in 1..MaxTodos : ops < MaxOverlapOps /\ HandleToggle(id)
    \/ \E id \in 1..MaxTodos, flipCompleted, flipStarred \in BOOLEAN, group \in FormGroups :
         ops < MaxOverlapOps /\ HandleUpdate(id, flipCompleted, flipStarred, group)
    \/ \E id \in 1..MaxTodos : ops < MaxOverlapOps /\ HandleDelete(id)
    \/ \E category \in {"today", "backlog"} : ops < MaxOverlapOps /\ HandleAdd("N", category)
    \/ \E dragId, hoverId \in 1..MaxTodos : ops < MaxOverlapOps /\ HandleMove(dragId, hoverId)
    \/ \E i \in 1..Len(calls) : AddArrives(i)
    \/ \E i \in 1..Len(calls) : AddResponse(i)
    \/ \E i \in 1..Len(calls) : ToggleUpdateOk(i)
    \/ \E i \in 1..Len(calls) : ToggleAddOk(i)
    \/ \E i \in 1..Len(calls) : ToggleFetchReads(i)
    \/ \E i \in 1..Len(calls) : ToggleFetchApplied(i)
    \/ \E i \in 1..Len(calls) : ToggleSoftDeleteOk(i)
    \/ \E i \in 1..Len(calls) : UpdateOk(i)
    \/ \E i \in 1..Len(calls) : DeleteOk(i)
    \/ \E i \in 1..Len(calls) : MoveUpdateOk(i)

(* Every call succeeds: the interleavings alone decide the outcome. *)
SpecOverlap == Init /\ [][NextOverlap]_vars

(* C35: once every issued persistence call has succeeded and none is in
   flight, memory and the repository hold the same ids, and each todo's
   completed, deletedAt, order and group are the same in both, whatever the
   interleaving of handleToggle, handleDelete, handleAdd, handleUpdate and
   handleMove and the arrival order of their calls. *)
stored(id) == mapRow(CHOOSE r \in Range(repo) : r.id = id)

C35_SettledMemoryMatchesRepository ==
    (Idle /\ ops > 0) =>
        /\ Ids(todos) = { r.id : r \in Range(repo) }
        /\ \A i \in DOMAIN todos :
             LET t == todos[i]
             IN  /\ t.completed = stored(t.id).completed
                 /\ t.deletedAt = stored(t.id).deletedAt
                 /\ t.order = stored(t.id).order
                 /\ t.group = stored(t.id).group

(* C37: the todo ids in memory are pairwise distinct in every reachable
   state, also when the response of a handleAdd (which appends the created
   record) and the re-fetch of a handleToggle (which replaces the whole set)
   complete in either order. *)
C37_IdsPairwiseDistinct ==
    \A i, j \in DOMAIN todos : todos[i].id = todos[j].id => i = j


(* ---- Group handlers with other mutations applied while they are in flight ---- *)

NextGroupOverlap ==
    \/ \E dragGroup, hoverGroup \in renderedGroups(todos), insertAfter \in BOOLEAN :
         ops < MaxOverlapOps /\ HandleMoveGroup(dragGroup, hoverGroup, insertAfter)
    \/ \E oldName \in renderedGroups(todos), newName \in NewNames :
         ops < MaxOverlapOps /\ HandleRenameGroup(oldName, newName)
    \/ \E id \in 1..MaxTodos : ops < MaxOverlapOps /\ HandleDelete(id)
    \/ \E i \in 1..Len(calls) : MoveGroupOk(i)
    \/ \E i \in 1..Len(calls) : MoveGroupFail(i)
    \/ \E i \in 1..Len(calls) : RenameUpdateOk(i)
    \/ \E i \in 1..Len(calls) : RenameUpdateFail(i)
    \/ \E i \in 1..Len(calls) : DeleteOk(i)
    \/ \E i \in 1..Len(calls) : DeleteFail(i)

SpecGroupOverlap == InitGroupDrag /\ [][NextGroupOverlap]_vars

(* C34: when handleRenameGroup or handleMoveGroup fails after a different
   mutation was applied in memory while its calls were in flight, the
   rollback reverts only what the failed operation changed: a failed rename
   puts the old group back on the todos it renamed and leaves every other
   todo and field as it was before the rollback; after a failed group move
   the group a later move dragged is still on the side of its target where
   that move put it. *)
laterMoves(failed) ==
    { c \in Range(calls) :
        /\ c.op = "moveGroup"
        /\ c.prevOrder = failed.order
        /\ c.order = groupOrder
        /\ failed.names[1] \notin { c.names[1], c.names[2] } }

isBefore(order, a, b) == indexOf(order, a) < indexOf(order, b)

renamedBy(call) ==
    { t.id : t \in { u \in Range(call.snapshot) : displayGroup(u.group) = call.names[1] } }

C34_RollbackKeepsOtherMutations ==
    [][ /\ last'.op = "renameRejected" =>
             /\ Len(todos') = Len(todos)
             /\ \A i \in DOMAIN todos :
                  IF todos[i].id \in renamedBy(last'.call)
                  THEN todos'[i] = [todos[i] EXCEPT
                                      !.group = find(last'.call.snapshot, todos[i].id).group]
                  ELSE todos'[i] = todos[i]
        /\ last'.op = "moveGroupFail" =>
             \A later \in laterMoves(last'.call) :
                 /\ includes(groupOrder', later.names[1])
                 /\ includes(groupOrder', later.names[2])
                 /\ isBefore(groupOrder', later.names[1], later.names[2])
                      = isBefore(groupOrder, later.names[1], later.names[2])
      ]_vars


(* ---- The load effect (App.tsx:63-96) and the auth lifecycle (App.tsx:39-58) ---- *)

MaxSessions == 3

PURGE_AFTER_DAYS == 365

(* part_002:123-134: the user's rows left after purgeOldDeletedTodos, with
   .lt("deleted_at", cutoff) taken at day granularity. *)
purgeOldDeletedTodos(rows, days, now) ==
    SelectSeq(rows, LAMBDA r :
        ~ /\ r.deleted_at # NullDate
          /\ makeDay(now[1], now[2], now[3])
               - makeDay(r.deleted_at[1], r.deleted_at[2], r.deleted_at[3]) > days)

(* One activation of load(): the user it was started for (user!.id in the
   closure), the await it is suspended at, and the cancelled flag of its
   effect (App.tsx:70). *)
Load(userId) == [user |-> userId, pc |-> "purge", cancelled |-> FALSE]

(* The cleanup of the previous effect run, App.tsx:95. *)
cleanup(ls) == [ i \in DOMAIN ls |-> [ls[i] EXCEPT !.cancelled = TRUE] ]

(* setUser(next) (App.tsx:42, 46, 53, 436, 444) followed by the effect it
   triggers: the previous run's cleanup, then App.tsx:64-94 up to the first
   await of load(). *)
SetUser(next) ==
    /\ next # user
    /\ user' = next
    /\ IF next = NoUser
       THEN /\ todos' = <<>>
            /\ groupOrder' = <<>>
            /\ loads' = cleanup(loads)
            /\ UNCHANGED loadingTodos
       ELSE /\ loadingTodos' = TRUE
            /\ loads' = Append(cleanup(loads), Load(next))
            /\ UNCHANGED <<todos, groupOrder>>
    /\ ops' = ops + 1
    /\ last' = [op |-> "setUser", call |-> NoCall]
    /\ UNCHANGED <<repo, calls, today, tz, groupRepo, shown>>

(* The finally block, App.tsx:90-92, and the end of the activation. *)
loadFinally(i) ==
    /\ loadingTodos' = IF loads[i].cancelled THEN loadingTodos ELSE FALSE
    /\ loads' = removeAt(loads, i)

(* App.tsx:76: purgeOldDeletedTodos resolved. *)
LoadPurgeOk(i) ==
    /\ i \in DOMAIN loads
    /\ loads[i].pc = "purge"
    /\ repo' = [repo EXCEPT ![loads[i].user] =
                    purgeOldDeletedTodos(repo[loads[i].user], PURGE_AFTER_DAYS, today)]
    /\ loads' = [loads EXCEPT ![i].pc = "fetch"]
    /\ last' = [op |-> "loadPurgeOk", call |-> NoCall]
    /\ UNCHANGED <<todos, calls, today, tz, ops, groupOrder, groupRepo, shown,
                   user, loadingTodos>>

(* App.tsx:78-86: fetchTodos resolved; fetchGroupOrder resolved, or rejected
   and was replaced by {} (App.tsx:80), whose backlog list is []. *)
LoadFetchOk(i) ==
    /\ i \in DOMAIN loads
    /\ loads[i].pc = "fetch"
    /\ \E loadedTodos \in fetchTodos(repo[loads[i].user]),
          backlog \in {groupRepo[loads[i].user], <<>>} :
         IF loads[i].cancelled
         THEN UNCHANGED <<todos, groupOrder>>
         ELSE /\ todos' = loadedTodos
              /\ groupOrder' = backlog
    /\ loadFinally(i)
    /\ last' = [op |-> "loadFetchOk", call |-> NoCall]
    /\ UNCHANGED <<repo, calls, today, tz, ops, groupRepo, shown, user>>

(* App.tsx:87-89: purgeOldDeletedTodos or fetchTodos rejected. *)
LoadFail(i) ==
    /\ i \in DOMAIN loads
    /\ loadFinally(i)
    /\ last' = [op |-> "loadFail", call |-> NoCall]
    /\ UNCHANGED <<todos, repo, calls, today, tz, ops, groupOrder, groupRepo, shown, user>>

(* Each user's rows of the todos table and of user_group_orders: in this
   part of the model repo and groupRepo are keyed by user_id. *)
UserTodos ==
    [ u \in Users |->
        IF u = "u1"
        THEN << Todo(1, "A", "backlog", "Work", 0, 0, FALSE, NoDate, NoDate, NoId),
                Todo(2, "Old", "backlog", "Work", 1, 0, FALSE, NoDate, <<2026, 1, 1>>, NoId) >>
        ELSE << Todo(3, "G", "backlog", "Garden", 0, 0, FALSE, NoDate, NoDate, NoId) >> ]

UserGroupOrders == [ u \in Users |-> IF u = "u1" THEN <<"Work">> ELSE <<"Garden">> ]

(* The state after construction, App.tsx:30-34, before any session is known. *)
InitLoad ==
    /\ repo = [ u \in Users |-> tableOf(UserTodos[u]) ]
    /\ todos = <<>>
    /\ calls = <<>>
    /\ today = <<2027, 3, 1>>
    /\ tz = UTC
    /\ ops = 0
    /\ last = [op |-> "init", call |-> NoCall]
    /\ groupRepo = UserGroupOrders
    /\ groupOrder = <<>>
    /\ shown = NoView
    /\ user = NoUser
    /\ loadingTodos = FALSE
    /\ loads = <<>>

NextLoad ==
    \/ \E next \in Users \cup {NoUser} : ops < MaxSessions /\ SetUser(next)
    \/ \E i \in 1..MaxSessions : LoadPurgeOk(i)
    \/ \E i \in 1..MaxSessions : LoadFetchOk(i)
    \/ \E i \in 1..MaxSessions : LoadFail(i)

SpecLoad == InitLoad /\ [][NextLoad]_vars

(* Every purge and fetch request is answered: a load in flight takes its
   next step, resolved or rejected. *)
LoadSettles == \E i \in 1..MaxSessions : LoadPurgeOk(i) \/ LoadFetchOk(i) \/ LoadFail(i)

SpecLoadFair == InitLoad /\ [][NextLoad]_vars /\ WF_vars(LoadSettles)

(* C36: the loading flag always clears: whenever loadingTodos is true it is
   false again later, also when the user became null or changed while a load
   was in flight, so the app leaves the "Loading..." screen. *)
C36_LoadingFlagClears == loadingTodos ~> ~loadingTodos

(* C40: a load started for one user never writes into the state of another:
   on every screen but "Loading...", the in-memory todos and group order hold
   only data fetched for the current user, or are empty when there is
   none. *)
C40_StateOfCurrentUserOnly ==
    ~loadingTodos =>
        IF user = NoUser
        THEN todos = <<>> /\ groupOrder = <<>>
        ELSE /\ Ids(todos) \subseteq { t.id : t \in Range(UserTodos[user]) }
             /\ groupOrder \in {UserGroupOrders[user], <<>>}

====
